---- MODULE Spec2Model ----
(***************************************************************************)
(* Verification model of the AI Diagnostic and Prescription Assistant:     *)
(*   - the interactive front-end script (streamlit_app.py),                *)
(*   - the feature / label encoders (data_loader.py, model_evaluator.py),  *)
(*   - the split manager (data_loader.py, split_data),                     *)
(*   - the model bank and the persistence layer (model_trainer.py) and the *)
(*     artifact loading of the evaluator (model_evaluator.py).             *)
(* Each subsystem has its own variables and its own specification; the     *)
(* variables of the other subsystems stay at their initial values.         *)
(***************************************************************************)
EXTENDS Integers, Sequences, FiniteSets, TLC

(***************************************************************************)
(* Generic helpers                                                         *)
(***************************************************************************)
Range(s) == {s[i] : i \in 1..Len(s)}

SeqsUpTo(S, n) == UNION {[1..k -> S] : k \in 0..n}

InjSeqsUpTo(S, n) ==
  {s \in SeqsUpTo(S, n) : \A i, j \in 1..Len(s) : i # j => s[i] # s[j]}

RECURSIVE Flatten(_)
Flatten(ss) == IF ss = <<>> THEN <<>> ELSE Head(ss) \o Flatten(Tail(ss))

(***************************************************************************)
(* Bounds of the model                                                     *)
(***************************************************************************)
MaxMeds == 2
MaxTable == 2         \* rows of the symptom table and of the disease table
MaxRelRows == 2       \* rows of the case / relationship table
MaxCases == 1         \* cases of an evaluation test file
MaxCaseSymptoms == 2  \* symptom entries of one evaluation case
MaxRows == 6          \* rows of a data set split row by row
MaxSamples == 1000    \* rows of a data set split by class counts
MaxClock == 1         \* seconds the wall clock advances
MaxRuns == 2          \* training invocations on one model directory
MaxTest == 2          \* rows of the test set one model is evaluated on
MaxSpans == 2         \* spans the extractor returns for one text
MaxSymptomSet == 2    \* symptom ids in one symptom set of a base-file disease
MaxTextLen == 3       \* characters of a text given to the NER model
MaxFeedback == 2      \* presses of 'Submit feedback' with a text

(***************************************************************************)
(* State                                                                   *)
(***************************************************************************)
\* Front-end script (streamlit_app.py).
VARIABLES
  symptoms,       \* value of the "Describe symptoms" text area
  allergies,      \* value of the "Allergies" text input
  refer_reasons,  \* result of the red-flag filter in the last script run
  screen,         \* what the last script run rendered below the inputs
  calls,          \* collaborator calls of the last script run, in order
  feedback_csv,   \* the rows of feedback.csv (the feedback text of each)
  submitted       \* history: the non-empty texts 'Submit feedback' was pressed with

appVars == <<symptoms, allergies, refer_reasons, screen, calls, feedback_csv, submitted>>

\* Feature / label encoders.
VARIABLES
  encFn,   \* which encoder is applied: "train" or "eval"
  encIn,   \* its inputs
  encOut   \* its result, <<>> until it has been applied

encVars == <<encFn, encIn, encOut>>

\* Split manager.
VARIABLES
  splitIn,   \* (X, y, test_size, val_size) given to split_data
  splitOut,  \* the six returned arrays or the error raised; <<>> before the call
  sizeIn,    \* (class counts of y, test_size, val_size) given to split_data
  sizeOut    \* the sizes of the returned parts or the error raised

splitVars == <<splitIn, splitOut, sizeIn, sizeOut>>

\* Trainer (model_trainer.py) and the artifact loading of the evaluator.
VARIABLES
  cfg,                \* MODEL_CONFIG / TRAINING_CONFIG entries the trainer reads
  stage,              \* position of train_and_evaluate
  error,              \* the exception that ended the run, "none" otherwise
  data,               \* (train, val, test) parts returned by load_data
  models,             \* self.models
  scalers,            \* self.scalers
  metadata,           \* keys of self.metadata
  model_performances, \* validation accuracy per trained model
  evaluation_results, \* models with test metrics
  raw,                \* the raw tables of <data_dir>
  processed,          \* files present in <data_dir>/processed
  processedData,      \* the parts held by the processed array files
  clock,              \* wall clock, in seconds
  dirs,               \* run directories of the model directory, by timestamp
  latest,             \* the entry named 'latest' of the model directory
  runs,               \* training invocations started
  evalOut,            \* artifact loading of the evaluator, <<>> before it runs
  called,             \* history: collaborator calls of the current invocation
  outcome,            \* how the entry point ended, <<>> while it runs
  saveLog             \* history: one record per save_models invocation

trainerObj == <<data, models, scalers, metadata, model_performances, evaluation_results>>
trainVars == <<cfg, stage, error, trainerObj, raw, processed, processedData,
               clock, dirs, latest, runs, evalOut, called, outcome, saveLog>>

\* Functions checked on their own: the metrics of one model and the span
\* matching (model_evaluator.py), the case generator (data_generator.py),
\* the orchestrator (train_pipeline.py).
VARIABLES
  evFn,   \* the function applied
  evIn,   \* its inputs
  evOut   \* its result, <<>> until it has been applied

evVars == <<evFn, evIn, evOut>>

vars == <<appVars, encVars, splitVars, trainVars, evVars>>

\* What the operations of one subsystem leave alone.
notApp == <<encVars, splitVars, trainVars, evVars>>
notEnc == <<appVars, splitVars, trainVars, evVars>>
notSplit == <<appVars, encVars, trainVars, evVars>>
notTrain == <<appVars, encVars, splitVars, evVars>>
notEv == <<appVars, encVars, splitVars, trainVars>>

(***************************************************************************)
(* FRONT-END (streamlit_app.py)                                            *)
(***************************************************************************)

SymptomTexts == {"", " ", "cough", "chest pain"}
AllergyTexts == {"", "penicillin"}
DiseaseLabels == {"flu", "uti"}
MedNames == {"amoxicillin", "ibuprofen"}
\* Lists the safety filter can return.
RedFlagLists == {<<>>, <<"chest pain">>, <<"chest pain", "bleeding">>}
top_k == 3
RankedLists == InjSeqsUpTo(DiseaseLabels, top_k)
MedLists == SeqsUpTo(MedNames, MaxMeds)

\* symptoms.strip()
Strip(s) == IF s = " " THEN "" ELSE s

\* refer_reasons = detect_red_flags(symptoms) if symptoms else []
ReferReasons(sym, detected) == IF sym # "" THEN detected ELSE <<>>

\* The inner loop over the medications of one condition (lines 84-104).
RECURSIVE MedEntries(_)
MedEntries(meds) ==
  IF meds = <<>> THEN [screen |-> <<>>, calls |-> <<>>]
  ELSE LET rest == MedEntries(Tail(meds))
       IN [screen |-> <<<<"medication", Head(meds)>>>> \o rest.screen,
           calls  |-> <<<<"compute_dose", Head(meds)>>>> \o rest.calls]

\* The loop over the ranked conditions of the medication section (lines 76-104).
\* filtered[d] is what allergy_filter(meds_for_disease(d), allergies) returns.
RECURSIVE MedicationLoop(_, _)
MedicationLoop(ranked, filtered) ==
  IF ranked = <<>> THEN [screen |-> <<>>, calls |-> <<>>]
  ELSE LET d    == Head(ranked)
           meds == filtered[d]
           rest == MedicationLoop(Tail(ranked), filtered)
           here == IF meds = <<>>
                   THEN [screen |-> <<<<"no_entries", d>>>>, calls |-> <<>>]
                   ELSE MedEntries(meds)
       IN [screen |-> <<<<"med_heading", d>>>> \o here.screen \o rest.screen,
           calls  |-> <<<<"meds_for_disease", d>>, <<"allergy_filter", d>>>>
                      \o here.calls \o rest.calls]

MedicationSectionNoGate(reasons, ranked, filtered) ==
  MedicationLoop(ranked, filtered)

\* "Medication support" section (lines 72-104): gated by the red flags.
MedicationSection(reasons, ranked, filtered) ==
  IF reasons # <<>>
  THEN [screen |-> <<<<"info", "Suppressed due to red flags.">>>>, calls |-> <<>>]
  ELSE MedicationLoop(ranked, filtered)

\* The body of `if st.button("Analyze"):` up to the feedback section.
AnalyzeRun(sym, reasons, predictorOK, ranked, filtered) ==
  IF Strip(sym) = ""
  THEN [screen |-> <<<<"warning", "Please enter symptoms.">>>>, calls |-> <<>>]
  ELSE
    LET crit == IF reasons # <<>>
                THEN <<<<"error", "Critical symptoms detected">>>> ELSE <<>>
    IN IF ~predictorOK
       THEN [screen |-> crit \o <<<<"error", "model files not found">>>>,
             calls  |-> <<<<"Predictor">>>>]
       ELSE
         LET med == MedicationSection(reasons, ranked, filtered)
         IN [screen |-> crit
                        \o [i \in 1..Len(ranked) |-> <<"condition", ranked[i]>>]
                        \o <<<<"explainability">>>>
                        \o med.screen
                        \o <<<<"feedback_form">>>>,
             calls  |-> <<<<"Predictor">>, <<"predict">>, <<"explanation_keywords">>>>
                        \o med.calls]

FeedbackTexts == {"", " ", "thanks"}

\* The feedback section (lines 106-137), which lies inside the body of
\* `if st.button("Analyze"):` (line 45): a row is appended in a script run in
\* which Analyze reads true, the body reached the section, 'Submit feedback'
\* reads true and the text is not blank.
FeedbackRows(analyze, reached, submit_fb, feedback_text, csv) ==
  IF analyze /\ reached /\ submit_fb /\ Strip(feedback_text) # ""
  THEN Append(csv, Strip(feedback_text))
  ELSE csv

\* The feedback widgets are on the screen.
FeedbackFormShown(scr) == \E i \in 1..Len(scr) : scr[i] = <<"feedback_form">>

AppInit ==
  /\ symptoms = ""
  /\ allergies = ""
  /\ refer_reasons = <<>>
  /\ screen = <<>>
  /\ calls = <<>>
  /\ feedback_csv = <<>>
  /\ submitted = <<>>

\* Editing the text area reruns the script with no button pressed.
EditSymptoms ==
  \E s \in SymptomTexts, detected \in RedFlagLists :
    /\ s # symptoms
    /\ symptoms' = s
    /\ refer_reasons' = ReferReasons(s, detected)
    /\ screen' = <<>>
    /\ calls' = <<>>
    /\ UNCHANGED <<allergies, feedback_csv, submitted, notApp>>

EditAllergies ==
  \E a \in AllergyTexts, detected \in RedFlagLists :
    /\ a # allergies
    /\ allergies' = a
    /\ refer_reasons' = ReferReasons(symptoms, detected)
    /\ screen' = <<>>
    /\ calls' = <<>>
    /\ UNCHANGED <<symptoms, feedback_csv, submitted, notApp>>

\* Pressing "Analyze" reruns the script with the Analyze button reading true.
ClickAnalyze ==
  \E detected \in RedFlagLists, predictorOK \in BOOLEAN,
     ranked \in RankedLists, filtered \in [DiseaseLabels -> MedLists] :
    LET reasons == ReferReasons(symptoms, detected)
        run     == AnalyzeRun(symptoms, reasons, predictorOK, ranked, filtered)
    IN /\ refer_reasons' = reasons
       /\ screen' = run.screen
       /\ calls' = run.calls
       /\ feedback_csv' = FeedbackRows(TRUE, FeedbackFormShown(run.screen), FALSE, "",
                                       feedback_csv)
       /\ UNCHANGED <<symptoms, allergies, submitted, notApp>>

\* Committing a text in the feedback input reruns the script with no button
\* pressed: the body of the Analyze block is not run.
EditFeedback ==
  \E t \in FeedbackTexts \ {""}, detected \in RedFlagLists :
    /\ FeedbackFormShown(screen)
    /\ refer_reasons' = ReferReasons(symptoms, detected)
    /\ screen' = <<>>
    /\ calls' = <<>>
    /\ feedback_csv' = FeedbackRows(FALSE, FALSE, FALSE, t, feedback_csv)
    /\ UNCHANGED <<symptoms, allergies, submitted, notApp>>

\* Pressing 'Submit feedback' with the text t in the feedback input reruns
\* the script with that button reading true and Analyze reading false.
SubmitFeedback ==
  \E t \in FeedbackTexts, detected \in RedFlagLists :
    /\ FeedbackFormShown(screen)
    /\ Len(submitted) < MaxFeedback
    /\ refer_reasons' = ReferReasons(symptoms, detected)
    /\ screen' = <<>>
    /\ calls' = <<>>
    /\ feedback_csv' = FeedbackRows(FALSE, FALSE, TRUE, t, feedback_csv)
    /\ submitted' = IF Strip(t) # "" THEN Append(submitted, Strip(t)) ELSE submitted
    /\ UNCHANGED <<symptoms, allergies, notApp>>

(***************************************************************************)
(* FEATURE / LABEL ENCODERS                                                *)
(* (data_loader.py prepare_disease_prediction_data,                        *)
(*  model_evaluator.py _prepare_disease_prediction_data)                   *)
(***************************************************************************)

SymptomIds == {"S1", "S2", "S3"}
DiseaseIds == {"D1", "D2"}
\* Ids the symptom table can list; "S3" occurs in cases only.
TableSymptomIds == {"S1", "S2"}
CaseIds == {1, 2}
FileStates == {"missing", "csv", "json", "other"}

RelationshipRows == [case_id : CaseIds, symptom_id : SymptomIds, disease_id : DiseaseIds]
TestCases == [symptoms : SeqsUpTo(SymptomIds, MaxCaseSymptoms), disease_id : DiseaseIds]

\* pandas Series.unique(): the distinct values in order of first appearance.
RECURSIVE Unique(_)
Unique(s) ==
  IF s = <<>> THEN <<>>
  ELSE LET init == Unique(SubSeq(s, 1, Len(s) - 1))
           last == s[Len(s)]
       IN IF last \in Range(init) THEN init ELSE Append(init, last)

\* {v: i for i, v in enumerate(values)}: indices count from 0.
Enumerate(values) ==
  [v \in Range(values) |-> (CHOOSE i \in 1..Len(values) : values[i] = v) - 1]

\* np.zeros(n) followed by vector[mapping[id]] = 1 for every id of ids that
\* is a key of the mapping; ids that are no key are skipped.
OneHotNoMembershipTest(ids, mapping, n) ==
  [i \in 0..(n - 1) |->
     IF \E k \in 1..Len(ids) :
          (IF ids[k] \in DOMAIN mapping THEN mapping[ids[k]] ELSE 0) = i
     THEN 1 ELSE 0]

OneHot(ids, mapping, n) ==
  [i \in 0..(n - 1) |->
     IF \E k \in 1..Len(ids) : ids[k] \in DOMAIN mapping /\ mapping[ids[k]] = i
     THEN 1 ELSE 0]

\* relationship_data.groupby('case_id'): the groups in ascending key order,
\* each with its rows in file order.
RECURSIVE SortedSeq(_)
SortedSeq(S) ==
  IF S = {} THEN <<>>
  ELSE LET m == CHOOSE x \in S : \A y \in S : x <= y
       IN <<m>> \o SortedSeq(S \ {m})

RowsOfCase(rows, c) == SelectSeq(rows, LAMBDA r : r.case_id = c)

Column(rows, col) == [i \in 1..Len(rows) |-> rows[i][col]]

GroupByCase(rows) ==
  LET keys == SortedSeq({rows[i].case_id : i \in 1..Len(rows)})
  IN [k \in 1..Len(keys) |-> RowsOfCase(rows, keys[k])]

NoResult == [X |-> <<>>, y |-> <<>>, src |-> <<>>, err |-> "none"]

\* The rows one case group adds (lines 210-224): one (vector, label) pair per
\* distinct disease id of the group that is a key of disease_to_idx.
\* src records, for each pair, the case it was built from.
CaseRows(group, symptom_to_idx, disease_to_idx, n) ==
  LET vec      == OneHot(Unique(Column(group, "symptom_id")), symptom_to_idx, n)
      diseases == Unique(Column(group, "disease_id"))
      mapped   == SelectSeq(diseases, LAMBDA d : d \in DOMAIN disease_to_idx)
  IN [X   |-> [k \in 1..Len(mapped) |-> vec],
      y   |-> [k \in 1..Len(mapped) |-> disease_to_idx[mapped[k]]],
      src |-> [k \in 1..Len(mapped) |-> group[1].case_id]]

\* MedicalDataLoader.prepare_disease_prediction_data (lines 163-226).
\* symptom_ids / disease_ids: the id columns of the two loaded tables;
\* relFile: state of the relationship file; rows: its rows.
prepare_disease_prediction_data(symptom_ids, disease_ids, relFile, rows) ==
  IF Len(symptom_ids) = 0 \/ Len(disease_ids) = 0 THEN NoResult
  ELSE IF relFile = "missing" THEN NoResult
  ELSE IF relFile = "other" THEN [NoResult EXCEPT !.err = "Unsupported file format"]
  \* pd.DataFrame(json.load(f)) of an empty list has no columns, and
  \* groupby('case_id') (line 205) raises KeyError on it.
  ELSE IF relFile = "json" /\ rows = <<>> THEN [NoResult EXCEPT !.err = "KeyError: 'case_id'"]
  ELSE
    LET all_symptoms   == Unique(symptom_ids)
        all_diseases   == Unique(disease_ids)
        symptom_to_idx == Enumerate(all_symptoms)
        disease_to_idx == Enumerate(all_diseases)
        groups         == GroupByCase(rows)
        per == [g \in 1..Len(groups) |->
                  CaseRows(groups[g], symptom_to_idx, disease_to_idx, Len(all_symptoms))]
    IN [X   |-> Flatten([g \in 1..Len(groups) |-> per[g].X]),
        y   |-> Flatten([g \in 1..Len(groups) |-> per[g].y]),
        src |-> Flatten([g \in 1..Len(groups) |-> per[g].src]),
        err |-> "none"]

\* The label the evaluator gives one case (lines 361-367).
EvalLabel(disease_id, disease_mapping) ==
  IF disease_id \in DOMAIN disease_mapping THEN disease_mapping[disease_id] ELSE -1

\* ModelEvaluator._prepare_disease_prediction_data (lines 344-369).
\* src records, for each row, the position of its case in test_data.
EvalPrepare(test_data, feature_mapping, disease_mapping) ==
  LET n == Cardinality(DOMAIN feature_mapping)
  IN [X   |-> [c \in 1..Len(test_data) |->
                 OneHot(test_data[c].symptoms, feature_mapping, n)],
      y   |-> [c \in 1..Len(test_data) |->
                 EvalLabel(test_data[c].disease_id, disease_mapping)],
      src |-> [c \in 1..Len(test_data) |-> c],
      err |-> "none"]

\* Index mappings a mapping file can hold: an ordering of some of the ids.
IndexMappings(ids) == {Enumerate(s) : s \in InjSeqsUpTo(ids, Cardinality(ids))}

\* A relationship file that is absent or unreadable has no rows.
TrainEncodeInputs ==
  {in \in [symptom_ids : SeqsUpTo(TableSymptomIds, MaxTable),
           disease_ids : InjSeqsUpTo(DiseaseIds, MaxTable),
           relFile     : FileStates,
           rows        : SeqsUpTo(RelationshipRows, MaxRelRows)] :
     in.relFile \in {"missing", "other"} => in.rows = <<>>}

EvalEncodeInputs ==
  [test_data       : SeqsUpTo(TestCases, MaxCases),
   feature_mapping : IndexMappings(TableSymptomIds),
   disease_mapping : IndexMappings(DiseaseIds)]

EncIdle == encFn = "none" /\ encIn = <<>> /\ encOut = <<>>

EncInit ==
  /\ encOut = <<>>
  /\ \/ encFn = "train" /\ encIn \in TrainEncodeInputs
     \/ encFn = "eval" /\ encIn \in EvalEncodeInputs

EncodeTraining ==
  /\ encFn = "train" /\ encOut = <<>>
  /\ encOut' = prepare_disease_prediction_data(
                  encIn.symptom_ids, encIn.disease_ids, encIn.relFile, encIn.rows)
  /\ UNCHANGED <<encFn, encIn, notEnc>>

EncodeEvaluation ==
  /\ encFn = "eval" /\ encOut = <<>>
  /\ encOut' = EvalPrepare(encIn.test_data, encIn.feature_mapping, encIn.disease_mapping)
  /\ UNCHANGED <<encFn, encIn, notEnc>>

(***************************************************************************)
(* TABLE LOADERS (data_loader.py load_symptom_data, load_disease_data,     *)
(*  load_symptom_text_data, and the relationship file of                   *)
(*  prepare_disease_prediction_data)                                       *)
(***************************************************************************)
\* Extensions a configured file name can end with.
Extensions == {"csv", "json", "other"}

TableKinds == {"symptom", "disease", "symptom_text"}

\* The schema of the frame a loader builds for a file that does not exist
\* (lines 48-58, 82-94, 119-124).
ExpectedColumns(kind) ==
  CASE kind = "symptom" ->
         <<"symptom_id", "name", "description", "category", "body_part",
           "severity_scale", "common_duration", "icd_code", "snomed_code">>
    [] kind = "disease" ->
         <<"disease_id", "name", "description", "category", "icd_code", "snomed_code",
           "common_symptoms", "required_symptoms", "exclusionary_symptoms",
           "prevalence", "severity">>
    [] kind = "symptom_text" -> <<"text_id", "text", "annotations", "source">>

\* The extension is looked at before the file is looked for.
FileStateExtensionFirst(ext, present) ==
  IF ext \notin {"csv", "json"} THEN "other"
  ELSE IF ~present THEN "missing" ELSE ext

\* What a loader finds: os.path.exists is tested first (lines 45, 79, 116,
\* 182), the extension of an existing file after it (lines 61-66, 97-103,
\* 129-135, 187-193).
FileState(ext, present) ==
  IF ~present THEN "missing"
  ELSE IF ext \in {"csv", "json"} THEN ext ELSE "other"

\* load_symptom_data / load_disease_data / load_symptom_text_data: the frame
\* stored and returned, or the error raised. content is what the file holds.
load_table(kind, ext, present, content) ==
  LET st == FileState(ext, present)
  IN IF st = "missing"
     THEN [columns |-> ExpectedColumns(kind), ids |-> <<>>, err |-> "none"]
     ELSE IF st = "other"
     THEN [columns |-> <<>>, ids |-> <<>>, err |-> "Unsupported file format"]
     ELSE [columns |-> content.columns, ids |-> content.ids, err |-> "none"]

\* Tables a file can hold: rows of the expected schema, or nothing at all.
TableContents(kind) ==
  {[columns |-> ExpectedColumns(kind), ids |-> r] : r \in SeqsUpTo(TableSymptomIds, MaxTable)}
  \cup {[columns |-> <<>>, ids |-> <<>>]}

LoadTableInputs ==
  UNION {[kind : {k}, ext : Extensions, present : BOOLEAN, content : TableContents(k)] :
           k \in TableKinds}

\* The relationship file next to tables that are loaded already.
RelationshipInputs ==
  {in \in [symptom_ids : SeqsUpTo(TableSymptomIds, 1),
           disease_ids : InjSeqsUpTo(DiseaseIds, 1),
           ext         : Extensions,
           present     : BOOLEAN,
           rows        : SeqsUpTo(RelationshipRows, 1)] :
     ~in.present => in.rows = <<>>}

LoadInit ==
  /\ encOut = <<>>
  /\ \/ encFn = "load_table" /\ encIn \in LoadTableInputs
     \/ encFn = "prepare_disease_prediction_data" /\ encIn \in RelationshipInputs

LoadTable ==
  /\ encFn = "load_table" /\ encOut = <<>>
  /\ encOut' = load_table(encIn.kind, encIn.ext, encIn.present, encIn.content)
  /\ UNCHANGED <<encFn, encIn, notEnc>>

PrepareFromFiles ==
  /\ encFn = "prepare_disease_prediction_data" /\ encOut = <<>>
  /\ encOut' = prepare_disease_prediction_data(
                  encIn.symptom_ids, encIn.disease_ids,
                  FileState(encIn.ext, encIn.present), encIn.rows)
  /\ UNCHANGED <<encFn, encIn, notEnc>>

(***************************************************************************)
(* SPLIT MANAGER (data_loader.py split_data, over sklearn train_test_split) *)
(***************************************************************************)

Labels == {0, 1}

\* Proportions are held in percent. For these pairs binary floating point
\* and exact arithmetic give the same part sizes for every row count of the
\* model. The last pair breaks test_size + val_size < 1.
SplitParams == {<<20, 10>>, <<25, 25>>, <<50, 25>>, <<50, 50>>}

CeilDiv(a, b) == (a + b - 1) \div b

RECURSIVE SumOver(_, _)
SumOver(f, S) ==
  IF S = {} THEN 0
  ELSE LET c == CHOOSE x \in S : TRUE IN f[c] + SumOver(f, S \ {c})

\* np.unique(y) with the number of rows of each value.
ClassCounts(y) ==
  [c \in Range(y) |-> Cardinality({i \in 1..Len(y) : y[i] = c})]

\* adjusted_val_size = val_size / (1 - test_size), as <<numerator, denominator>>.
AdjustedValSizeUnadjusted(test_size, val_size) == <<val_size, 100>>

AdjustedValSize(test_size, val_size) == <<val_size, 100 - test_size>>

\* stratify=y if len(np.unique(y)) > 1 else None
StratifyAlways(counts) == TRUE

Stratify(counts) == Cardinality(DOMAIN counts) > 1

\* sklearn _validate_shuffle_split with a float test_size = num/den and
\* train_size=None.
ValidateShuffleSplit(n_samples, num, den) ==
  IF num <= 0 \/ num >= den
  THEN [err |-> "test_size out of range", n_train |-> 0, n_test |-> 0]
  ELSE LET n_test  == CeilDiv(num * n_samples, den)
           n_train == n_samples - n_test
       IN IF n_train = 0
          THEN [err |-> "train set will be empty", n_train |-> 0, n_test |-> n_test]
          ELSE [err |-> "none", n_train |-> n_train, n_test |-> n_test]

\* The checks StratifiedShuffleSplit makes on the class counts.
StratifyError(counts, n_train, n_test) ==
  LET n_classes == Cardinality(DOMAIN counts)
  IN IF \E c \in DOMAIN counts : counts[c] < 2
     THEN "least populated class has only 1 member"
     ELSE IF n_train < n_classes THEN "train_size less than number of classes"
     ELSE IF n_test < n_classes THEN "test_size less than number of classes"
     ELSE "none"

\* sklearn _approximate_mode: the per-class numbers of n_draws rows drawn in
\* proportion to the class counts; ties between equal remainders are broken
\* by the random generator, so every tie-break is an outcome.
ApproximateMode(counts, n_draws) ==
  LET C       == DOMAIN counts
      total   == SumOver(counts, C)
      floored == [c \in C |-> (counts[c] * n_draws) \div total]
      rem     == [c \in C |-> (counts[c] * n_draws) % total]
      need    == n_draws - SumOver(floored, C)
      tops    == {B \in SUBSET C :
                    /\ Cardinality(B) = need
                    /\ \A c \in B, d \in C \ B : rem[c] >= rem[d]}
  IN {[c \in C |-> floored[c] + (IF c \in B THEN 1 ELSE 0)] : B \in tops}

\* The per-class (train, test) row numbers of one stratified split.
StratifiedAllocations(counts, n_train, n_test) ==
  UNION {{[train |-> n_i, test |-> t_i] :
            t_i \in ApproximateMode([c \in DOMAIN counts |-> counts[c] - n_i[c]], n_test)} :
         n_i \in ApproximateMode(counts, n_train)}

\* The per-class counts of a part, with the classes that have no row left out
\* (np.unique of the part's labels).
Present(counts) ==
  [c \in {d \in DOMAIN counts : counts[d] > 0} |-> counts[c]]

\* One train_test_split on class counts: the set of outcomes
\* [err, train, test] where train and test are the class counts of the parts.
SizeSplits(counts, num, den, stratified) ==
  LET n == SumOver(counts, DOMAIN counts)
      v == ValidateShuffleSplit(n, num, den)
      e == IF v.err # "none" THEN v.err
           ELSE IF stratified THEN StratifyError(counts, v.n_train, v.n_test)
           ELSE "none"
  IN IF e # "none" THEN {[err |-> e, train |-> <<>>, test |-> <<>>]}
     ELSE IF stratified
     THEN {[err |-> "none", train |-> Present(a.train), test |-> Present(a.test)] :
             a \in StratifiedAllocations(counts, v.n_train, v.n_test)}
     ELSE {[err |-> "none", train |-> Present([c \in DOMAIN counts |-> counts[c] - t[c]]),
            test |-> Present(t)] :
             t \in {u \in [DOMAIN counts -> 0..v.n_test] :
                      /\ SumOver(u, DOMAIN counts) = v.n_test
                      /\ \A c \in DOMAIN counts : u[c] <= counts[c]}}

SizeError(e) == [err |-> e, n_train |-> 0, n_val |-> 0, n_test |-> 0,
                 stratify1 |-> FALSE, stratify2 |-> FALSE]

\* split_data (lines 244-260) on class counts: the set of its outcomes.
split_data_sizes(counts, test_size, val_size) ==
  LET s1first == Stratify(counts)
      adj     == AdjustedValSize(test_size, val_size)
  IN UNION {
       IF a.err # "none"
       THEN {[SizeError(a.err) EXCEPT !.stratify1 = s1first]}
       ELSE {IF b.err # "none"
             THEN [SizeError(b.err) EXCEPT !.stratify1 = s1first,
                                           !.stratify2 = Stratify(a.train)]
             ELSE [err |-> "none",
                   n_train |-> SumOver(b.train, DOMAIN b.train),
                   n_val   |-> SumOver(b.test, DOMAIN b.test),
                   n_test  |-> SumOver(a.test, DOMAIN a.test),
                   stratify1 |-> s1first, stratify2 |-> Stratify(a.train)] :
             b \in SizeSplits(a.train, adj[1], adj[2], Stratify(a.train))} :
       a \in SizeSplits(counts, test_size, 100, s1first)}

\* arr[idx] for a list of row positions (sklearn _safe_indexing).
Take(arr, idx) == [k \in 1..Len(idx) |-> arr[idx[k]]]

TakeShifted(arr, idx) == [k \in 1..Len(idx) |-> arr[idx[Len(idx) + 1 - k]]]

\* The labels of the rows picked by idx.
TakeLabels(y, idx) == Take(y, idx)

SubsetsOfSize(S, k) == {T \in SUBSET S : Cardinality(T) = k}

PartCounts(y, rows) ==
  [c \in Range(y) |-> Cardinality({i \in rows : y[i] = c})]

\* One train_test_split of n rows with labels y: the set of outcomes
\* [err, train, test], train and test being row positions into the arrays
\* given. The order inside a part is the shuffle's; no operation of the model
\* reads it, and each part is listed in ascending position.
TrainTestSplits(y, num, den, stratified) ==
  LET n      == Len(y)
      counts == ClassCounts(y)
      v      == ValidateShuffleSplit(n, num, den)
      e == IF v.err # "none" THEN v.err
           ELSE IF stratified THEN StratifyError(counts, v.n_train, v.n_test)
           ELSE "none"
      ok(test, train) ==
        ~stratified \/
          \E a \in StratifiedAllocations(counts, v.n_train, v.n_test) :
            PartCounts(y, test) = a.test /\ PartCounts(y, train) = a.train
  IN IF e # "none" THEN {[err |-> e, train |-> <<>>, test |-> <<>>]}
     ELSE UNION {
            {[err |-> "none", train |-> SortedSeq(train), test |-> SortedSeq(test)] :
               train \in {t \in SubsetsOfSize((1..n) \ test, v.n_train) : ok(test, t)}} :
            test \in SubsetsOfSize(1..n, v.n_test)}

SplitError(e) ==
  [err |-> e, X_train |-> <<>>, X_val |-> <<>>, X_test |-> <<>>,
   y_train |-> <<>>, y_val |-> <<>>, y_test |-> <<>>,
   y_train_val |-> <<>>, stratify1 |-> FALSE, stratify2 |-> FALSE]

\* MedicalDataLoader.split_data (lines 228-260): the set of its outcomes.
\* stratify1, stratify2 and y_train_val record the stratify argument of the
\* two train_test_split calls and the labels given to the second.
split_data(X, y, test_size, val_size) ==
  LET s1first == Stratify(ClassCounts(y))
      adj     == AdjustedValSize(test_size, val_size)
  IN UNION {
       IF a.err # "none"
       THEN {[SplitError(a.err) EXCEPT !.stratify1 = s1first]}
       ELSE LET X_train_val == Take(X, a.train)
                y_train_val == TakeLabels(y, a.train)
                s2          == Stratify(ClassCounts(y_train_val))
            IN {IF b.err # "none"
                THEN [SplitError(b.err) EXCEPT !.stratify1 = s1first, !.stratify2 = s2,
                                               !.y_train_val = y_train_val]
                ELSE [err |-> "none",
                      X_train |-> Take(X_train_val, b.train),
                      X_val   |-> Take(X_train_val, b.test),
                      X_test  |-> Take(X, a.test),
                      y_train |-> TakeLabels(y_train_val, b.train),
                      y_val   |-> TakeLabels(y_train_val, b.test),
                      y_test  |-> TakeLabels(y, a.test),
                      y_train_val |-> y_train_val,
                      stratify1 |-> s1first, stratify2 |-> s2] :
                b \in TrainTestSplits(y_train_val, adj[1], adj[2], s2)} :
       a \in TrainTestSplits(y, test_size, 100, s1first)}

\* Row i of X stands for the feature vector of input row i.
SplitInputs ==
  UNION {[X : {[i \in 1..n |-> i]}, y : [1..n -> Labels],
          test_size : {p[1] : p \in SplitParams},
          val_size  : {p[2] : p \in SplitParams}] : n \in 1..MaxRows}

\* Class counts of the label arrays considered: one class, two classes of
\* which one has a single row, two classes of about the same size.
ClassProfiles(n) ==
  {[c \in {0} |-> n]} \cup
  {[c \in Labels |-> IF c = 0 THEN n - k ELSE k] : k \in {1, n \div 2} \cap 1..(n - 1)}

SizeInputs ==
  UNION {[counts : ClassProfiles(n),
          test_size : {p[1] : p \in SplitParams},
          val_size  : {p[2] : p \in SplitParams}] : n \in 1..MaxSamples}

ParamsOK(in) == <<in.test_size, in.val_size>> \in SplitParams

SplitIdle == splitIn = <<>> /\ splitOut = <<>> /\ sizeIn = <<>> /\ sizeOut = <<>>

SplitInit ==
  /\ splitIn \in {in \in SplitInputs : ParamsOK(in)}
  /\ splitOut = <<>>
  /\ sizeIn = <<>> /\ sizeOut = <<>>

SplitData ==
  /\ splitIn # <<>> /\ splitOut = <<>>
  /\ splitOut' \in split_data(splitIn.X, splitIn.y, splitIn.test_size, splitIn.val_size)
  /\ UNCHANGED <<splitIn, sizeIn, sizeOut, notSplit>>

SizeInit ==
  /\ sizeIn \in {in \in SizeInputs : ParamsOK(in)}
  /\ sizeOut = <<>>
  /\ splitIn = <<>> /\ splitOut = <<>>

SplitDataSizes ==
  /\ sizeIn # <<>> /\ sizeOut = <<>>
  /\ sizeOut' \in split_data_sizes(sizeIn.counts, sizeIn.test_size, sizeIn.val_size)
  /\ UNCHANGED <<sizeIn, splitIn, splitOut, notSplit>>

(***************************************************************************)
(* MODEL BANK AND PERSISTENCE LAYER (model_trainer.py)                     *)
(***************************************************************************)
\* The classifiers in the order train_models handles them.
ModelTypes == <<"random_forest", "gradient_boosting", "neural_network">>

\* Validation accuracies a fitted classifier can reach, in percent.
Accuracies == {50, 100}

\* Rows of the encoded data set and its splits into three non-empty parts.
DataRows == {1, 2, 3}
Partitions ==
  {p \in [train : SUBSET DataRows, val : SUBSET DataRows, test : SUBSET DataRows] :
     /\ p.train # {} /\ p.val # {} /\ p.test # {}
     /\ p.train \cap p.val = {} /\ p.train \cap p.test = {} /\ p.val \cap p.test = {}
     /\ p.train \cup p.val \cup p.test = DataRows}

ArrayFiles == {"X_train.npy", "y_train.npy", "X_val.npy", "y_val.npy",
               "X_test.npy", "y_test.npy"}
MetadataFiles == {"symptom_metadata.csv", "disease_metadata.csv"}

Configs ==
  [models_to_train : SUBSET Range(ModelTypes),
   calibrate_probabilities : BOOLEAN,
   scale_features : BOOLEAN]

NoFiles == <<>>

\* A fresh DiseasePredictionTrainer (__init__, lines 36-51).
NewTrainer ==
  /\ data = <<>>
  /\ models = <<>>
  /\ scalers = <<>>
  /\ metadata = {}
  /\ model_performances = <<>>
  /\ evaluation_results = {}

\* The rows the calibrator of a classifier is fitted on (lines 152-154).
CalibrationDataTrain(train, val) == train

CalibrationData(train, val) == val

\* One classifier of train_models: fit on the training part, calibrate when
\* configured (lines 149-154, 174-179, 201-206).
FitModel(type, calibrate, train, val) ==
  [estimator      |-> type,
   base_fit       |-> train,
   calibrated     |-> calibrate,
   calibrator_fit |-> IF calibrate THEN CalibrationData(train, val) ELSE {}]

\* The classifiers train_models trains, in declaration order.
Trained(models_to_train) == SelectSeq(ModelTypes, LAMBDA t : t \in models_to_train)

\* max(model_performances, key=model_performances.get) over a dict filled in
\* the order `order`: the first key of maximal value.
BestModelLast(order, perf) ==
  LET best == CHOOSE i \in 1..Len(order) :
                /\ \A j \in 1..Len(order) : perf[order[j]] <= perf[order[i]]
                /\ \A j \in (i + 1)..Len(order) : perf[order[j]] < perf[order[i]]
  IN order[best]

BestModel(order, perf) ==
  LET best == CHOOSE i \in 1..Len(order) :
                /\ \A j \in 1..Len(order) : perf[order[j]] <= perf[order[i]]
                /\ \A j \in 1..(i - 1) : perf[order[j]] < perf[order[i]]
  IN order[best]

\* train_models (lines 124-225). acc[t] is the validation accuracy classifier
\* t reaches. The returned dict is the object stored as self.models, so the
\* 'best_model' entry added to self.models is an entry of it too.
train_models(config, train, val, acc) ==
  LET order  == Trained(config.models_to_train)
      fitted == [t \in Range(order) |->
                   FitModel(t, config.calibrate_probabilities, train, val)]
      perf   == [t \in Range(order) |-> acc[t]]
  IN [models |-> IF Len(order) > 0
                 THEN fitted @@ ("best_model" :> BestModel(order, perf))
                 ELSE fitted,
      model_performances |-> perf]

\* The model entries of a models dict: every key but the 'best_model' reference.
ModelNames(ms) == DOMAIN ms \ {"best_model"}

\* The name save_models gives the file of a model or scaler (lines 281, 287).
PickleName(name) == name \o ".pkl"

\* The keys of metadata.json (lines 292-319).
MetadataKeys(meta) ==
  {"timestamp", "best_model", "model_config", "training_config"}
  \cup (IF "diseases" \in meta THEN {"disease_mapping"} ELSE {})
  \cup (IF "symptoms" \in meta THEN {"symptom_mapping"} ELSE {})

\* The files save_models writes into the run directory (lines 278-332).
\* The two mappings of metadata.json map an id to attributes of its table
\* row (name, codes, category), not to its index.
SavedFiles(ms, scs, meta) ==
  [f \in {PickleName(n) : n \in ModelNames(ms)} |->
     [kind |-> "model", holds |-> ms[CHOOSE n \in ModelNames(ms) : PickleName(n) = f]]]
  @@ [f \in {PickleName(n) : n \in DOMAIN scs} |-> [kind |-> "scaler", holds |-> "StandardScaler"]]
  @@ ("metadata.json" :>
        [kind |-> "metadata",
         holds |-> [keys |-> MetadataKeys(meta),
                    best_model |-> IF "best_model" \in DOMAIN ms
                                   THEN ms["best_model"] ELSE "None",
                    mappings |-> "id -> row attributes"]])

\* os.path.exists(latest_link): follows a symbolic link to its target.
LatestExists(l, ds) ==
  \/ l.kind = "dir"
  \/ l.kind = "link" /\ l.target \in DOMAIN ds

\* Lines 334-343 with the removal and the creation skipped when a link is
\* already there.
RepointKeepOld(l, ds, ts) ==
  IF LatestExists(l, ds)
  THEN IF l.kind = "link"
       THEN [latest |-> l, err |-> "none"]
       ELSE [latest |-> l, err |-> "os.remove: is a directory"]
  ELSE IF l.kind = "none"
       THEN [latest |-> [kind |-> "link", target |-> ts], err |-> "none"]
       ELSE [latest |-> l, err |-> "os.symlink: file exists"]

\* Lines 334-343: remove an existing 'latest', then create the link.
\* Returns the new entry and the error raised, if any.
Repoint(l, ds, ts) ==
  IF LatestExists(l, ds)
  THEN IF l.kind = "link"
       THEN [latest |-> [kind |-> "link", target |-> ts], err |-> "none"]
       ELSE [latest |-> l, err |-> "os.remove: is a directory"]
  ELSE IF l.kind = "none"
       THEN [latest |-> [kind |-> "link", target |-> ts], err |-> "none"]
       ELSE [latest |-> l, err |-> "os.symlink: file exists"]

TrainIdle ==
  /\ cfg = <<>> /\ stage = "idle" /\ error = "none"
  /\ NewTrainer
  /\ raw = <<>> /\ processed = {} /\ processedData = <<>>
  /\ clock = 0 /\ dirs = NoFiles /\ latest = [kind |-> "none"]
  /\ runs = 0 /\ evalOut = <<>> /\ called = <<>> /\ saveLog = <<>>
  /\ outcome = <<>>

\* The parts a processed directory that was left by an earlier program run holds.
StoredParts == [train |-> {1}, val |-> {2}, test |-> {3}]

\* Raw tables of a data directory. A case is a row group of the relationship
\* table; TwoCases encodes to two rows, every other entry to none.
TwoCases ==
  [symptom_ids |-> <<"S1", "S2">>, disease_ids |-> <<"D1", "D2">>, relFile |-> "json",
   rows |-> <<[case_id |-> 1, symptom_id |-> "S1", disease_id |-> "D1"],
              [case_id |-> 2, symptom_id |-> "S2", disease_id |-> "D2"]>>]

RawTables ==
  {TwoCases,
   [TwoCases EXCEPT !.symptom_ids = <<>>],
   [TwoCases EXCEPT !.disease_ids = <<>>],
   [TwoCases EXCEPT !.relFile = "missing", !.rows = <<>>],
   [TwoCases EXCEPT !.relFile = "other", !.rows = <<>>],
   [TwoCases EXCEPT !.relFile = "csv", !.rows = <<>>],
   [TwoCases EXCEPT !.rows = <<>>],
   [TwoCases EXCEPT !.disease_ids = <<"D1">>, !.rows = <<@[2]>>]}

\* Line 62: the processed directory holds one of the array files at least.
ProcessedAny(files) == ArrayFiles \cap files # {}

\* Lines 62-65: the processed directory holds the six array files.
ProcessedComplete(files) == ArrayFiles \subseteq files

\* The calls train_models makes on the classifiers, in order.
FitCalls(order) == [i \in 1..Len(order) |-> order[i] \o ".fit"]

TrainInit ==
  /\ cfg \in Configs
  /\ stage = "start" /\ error = "none"
  /\ NewTrainer
  /\ \/ /\ processed \in {{}, ArrayFiles \ {"X_val.npy"}}
        /\ raw \in RawTables
        /\ processedData = <<>>
     \/ /\ processed \in {ArrayFiles, ArrayFiles \cup MetadataFiles}
        /\ raw = TwoCases
        /\ processedData = StoredParts
  /\ clock = 0 /\ dirs = NoFiles
  /\ latest \in {[kind |-> "none"], [kind |-> "dir"], [kind |-> "link", target |-> -1]}
  /\ runs = 1 /\ evalOut = <<>> /\ called = <<>> /\ saveLog = <<>>
  /\ outcome = <<>>

FailAndContinue(at, e) ==
  /\ stage' = "evaluated"
  /\ error' = <<at, e>>
Fail(at, e) ==
  /\ stage' = "failed"
  /\ error' = <<at, e>>

\* load_data (lines 53-97). The rows of a non-empty encoded data set are
\* taken as DataRows; split_data returns one of their partitions or raises.
LoadData ==
  /\ stage = "start"
  /\ IF ProcessedComplete(processed)
     THEN /\ data' = processedData
          /\ metadata' = (IF "symptom_metadata.csv" \in processed THEN {"symptoms"} ELSE {})
                          \cup (IF "disease_metadata.csv" \in processed THEN {"diseases"} ELSE {})
          /\ stage' = "loaded"
          /\ called' = <<"np.load">>
          /\ UNCHANGED <<error, processed, processedData>>
     ELSE LET enc == prepare_disease_prediction_data(
                       raw.symptom_ids, raw.disease_ids, raw.relFile, raw.rows)
          IN IF enc.err # "none"
             THEN /\ Fail("load", enc.err)
                  /\ called' = <<"prepare_disease_prediction_data">>
                  /\ UNCHANGED <<data, metadata, processed, processedData>>
             ELSE IF Len(enc.X) = 0 \/ Len(enc.y) = 0
             THEN /\ Fail("load", "No data available for training")
                  /\ called' = <<"prepare_disease_prediction_data">>
                  /\ UNCHANGED <<data, metadata, processed, processedData>>
             ELSE \/ \E p \in Partitions :
                       /\ data' = p
                       /\ processed' = processed \cup ArrayFiles \cup MetadataFiles
                       /\ processedData' = p
                       /\ metadata' = {"symptoms", "diseases"}
                       /\ stage' = "loaded"
                       /\ called' = <<"prepare_disease_prediction_data", "split_data",
                                      "save_processed_data">>
                       /\ UNCHANGED error
                  \/ /\ Fail("load", "train_test_split")
                     /\ called' = <<"prepare_disease_prediction_data", "split_data">>
                     /\ UNCHANGED <<data, metadata, processed, processedData>>
  /\ UNCHANGED <<cfg, models, scalers, model_performances, evaluation_results,
                 raw, clock, dirs, latest, runs, evalOut, saveLog, outcome, notTrain>>

\* preprocess_data (lines 99-122).
PreprocessData ==
  /\ stage = "loaded"
  /\ scalers' = IF cfg.scale_features
                THEN ("standard_scaler" :> [fit |-> data.train]) ELSE scalers
  /\ called' = IF cfg.scale_features
               THEN Append(called, "StandardScaler.fit_transform") ELSE called
  /\ stage' = "preprocessed"
  /\ UNCHANGED <<cfg, error, data, models, metadata, model_performances,
                 evaluation_results, raw, processed, processedData,
                 clock, dirs, latest, runs, evalOut, saveLog, outcome, notTrain>>

\* train_models (lines 124-225), or a fit that raises.
TrainModels ==
  /\ stage = "preprocessed"
  /\ \/ \E acc \in [cfg.models_to_train -> Accuracies] :
          LET r == train_models(cfg, data.train, data.val, acc)
          IN /\ models' = r.models
             /\ model_performances' = r.model_performances
             /\ stage' = "trained"
             /\ called' = called \o FitCalls(Trained(cfg.models_to_train))
             /\ UNCHANGED error
     \/ \E k \in 1..Len(Trained(cfg.models_to_train)) :
          /\ Fail("train", "fit")
          /\ called' = called \o SubSeq(FitCalls(Trained(cfg.models_to_train)), 1, k)
          /\ UNCHANGED <<models, model_performances>>
  /\ UNCHANGED <<cfg, data, scalers, metadata, evaluation_results, raw,
                 processed, processedData, clock, dirs, latest, runs, evalOut, saveLog, outcome, notTrain>>

\* The evaluation loop of train_and_evaluate (lines 362-373) over the dict
\* train_models returned, or a metric that raises.
EvaluateModels ==
  /\ stage = "trained"
  /\ \/ /\ evaluation_results' = ModelNames(models)
        /\ stage' = "evaluated"
        /\ UNCHANGED error
     \/ /\ ModelNames(models) # {}
        /\ Fail("evaluate", "metric")
        /\ UNCHANGED evaluation_results
  /\ UNCHANGED <<cfg, data, models, scalers, metadata, model_performances, raw,
                 processed, processedData, clock, dirs, latest, runs, evalOut, saveLog, called, outcome, notTrain>>

\* save_models (lines 272-345): the run directory is named by the clock's
\* second; os.makedirs(exist_ok=True) keeps a directory of that name.
SaveModels ==
  /\ stage = "evaluated"
  /\ LET written == SavedFiles(models, scalers, metadata)
         before  == IF clock \in DOMAIN dirs THEN dirs[clock] ELSE NoFiles
         ds      == (clock :> (written @@ before)) @@ dirs
         r       == Repoint(latest, ds, clock)
     IN /\ dirs' = ds
        /\ latest' = r.latest
        /\ IF r.err = "none"
           THEN stage' = "saved" /\ UNCHANGED error
           ELSE Fail("save", r.err)
        /\ saveLog' = Append(saveLog, [run    |-> runs,
                                       dir    |-> clock,
                                       fresh  |-> clock \notin DOMAIN dirs,
                                       before |-> latest,
                                       after  |-> r.latest,
                                       err    |-> r.err])
  /\ UNCHANGED <<cfg, trainerObj, raw, processed, processedData,
                 clock, runs, evalOut, called, outcome, notTrain>>

\* The program is started again (lines 386-390): a new trainer object on the
\* same data and model directories.
NewRun ==
  /\ stage \in {"saved", "failed"}
  /\ outcome # <<>>
  /\ runs < MaxRuns
  /\ runs' = runs + 1
  /\ stage' = "start" /\ error' = "none"
  /\ data' = <<>> /\ models' = <<>> /\ scalers' = <<>> /\ metadata' = {}
  /\ model_performances' = <<>> /\ evaluation_results' = {}
  /\ evalOut' = <<>> /\ called' = <<>> /\ outcome' = <<>>
  /\ UNCHANGED <<cfg, raw, processed, processedData, clock, dirs, latest, saveLog, notTrain>>

\* The progress line train_and_evaluate prints before a stage (lines 353-375).
ProgressLine(at) ==
  CASE at = "load" -> "Loading data..."
    [] at = "preprocess" -> "Preprocessing data..."
    [] at = "train" -> "Training models..."
    [] at = "evaluate" -> "Evaluating models..."
    [] at = "save" -> "Saving models..."

\* The dict train_and_evaluate returns (lines 378-382). Its 'models' entry is
\* the dict train_models returned, which is the object bound to self.models
\* (lines 217-225).
Results(ms, evaluated) ==
  [models |-> ms,
   evaluation |-> evaluated,
   best_model |-> IF "best_model" \in DOMAIN ms THEN ms["best_model"] ELSE "None"]

\* Lines 401-402: the except clause prints str(e) and falls off the end of
\* the script, so the process ends as after a run without error.
HandleError(e) ==
  [exit |-> "normal", last_progress |-> ProgressLine(e[1]),
   printed |-> <<"Error during training: ", e[2]>>]

\* The entry point after train_and_evaluate returned or raised (lines 389-402).
ReportOutcome ==
  /\ stage \in {"saved", "failed"}
  /\ outcome = <<>>
  /\ outcome' = IF stage = "saved"
                THEN [exit |-> "normal", last_progress |-> ProgressLine("save"),
                      printed |-> <<"Training completed successfully!">>,
                      results |-> Results(models, evaluation_results)]
                ELSE HandleError(error)
  /\ UNCHANGED <<cfg, stage, error, trainerObj, raw, processed, processedData,
                 clock, dirs, latest, runs, evalOut, called, saveLog, notTrain>>

Tick ==
  /\ stage # "idle"
  /\ clock < MaxClock
  /\ clock' = clock + 1
  /\ UNCHANGED <<cfg, stage, error, trainerObj, raw, processed, processedData,
                 dirs, latest, runs, evalOut, saveLog, called, outcome, notTrain>>

(***************************************************************************)
(* save_models STEP BY STEP, WITH A CONCURRENT READER OF 'latest'          *)
(***************************************************************************)
\* The last record of the log with the outcome of the repoint step filled in.
Finish(log, l, e) ==
  [log EXCEPT ![Len(log)] = [@ EXCEPT !.after = l, !.err = e]]

\* Lines 274-332: create the run directory and write the model, scaler and
\* metadata files into it.
WriteRunDirectory ==
  /\ stage = "evaluated"
  /\ LET written == SavedFiles(models, scalers, metadata)
         before  == IF clock \in DOMAIN dirs THEN dirs[clock] ELSE NoFiles
     IN dirs' = (clock :> (written @@ before)) @@ dirs
  /\ stage' = "repoint"
  /\ saveLog' = Append(saveLog, [run    |-> runs,
                                 dir    |-> clock,
                                 fresh  |-> clock \notin DOMAIN dirs,
                                 before |-> latest,
                                 after  |-> latest,
                                 err    |-> "running"])
  /\ UNCHANGED <<cfg, error, trainerObj, raw, processed, processedData,
                 clock, latest, runs, evalOut, called, outcome, notTrain>>

\* The files of a run directory in the order save_models writes them (lines
\* 279-332): the models in the order of the dict, the scalers, metadata.json.
SaveOrder(ms, scs) ==
  [i \in 1..Len(Trained(ModelNames(ms))) |-> PickleName(Trained(ModelNames(ms))[i])]
  \o (IF "standard_scaler" \in DOMAIN scs THEN <<PickleName("standard_scaler")>> ELSE <<>>)
  \o <<"metadata.json">>

WriteCall(f) == "write " \o f

\* The files the running save_models has still to write.
PendingFilesNoMetadata(ms, scs, made) ==
  SelectSeq(SaveOrder(ms, scs),
            LAMBDA f : WriteCall(f) \notin Range(made) /\ f # "metadata.json")

PendingFiles(ms, scs, made) ==
  SelectSeq(SaveOrder(ms, scs), LAMBDA f : WriteCall(f) \notin Range(made))

\* Lines 274-276: the directory named by the clock's second is created, or
\* kept when it is there.
MakeRunDirectory ==
  /\ stage = "evaluated"
  /\ dirs' = (clock :> (IF clock \in DOMAIN dirs THEN dirs[clock] ELSE NoFiles)) @@ dirs
  /\ stage' = "writing"
  /\ saveLog' = Append(saveLog, [run    |-> runs,
                                 dir    |-> clock,
                                 fresh  |-> clock \notin DOMAIN dirs,
                                 before |-> latest,
                                 after  |-> latest,
                                 err    |-> "running"])
  /\ UNCHANGED <<cfg, error, trainerObj, raw, processed, processedData,
                 clock, latest, runs, evalOut, called, outcome, notTrain>>

\* Lines 279-332: the next file of the run directory is written.
WriteRunFile ==
  /\ stage = "writing"
  /\ LET pending == PendingFiles(models, scalers, called)
         f       == Head(pending)
         d       == saveLog[Len(saveLog)].dir
     IN /\ dirs' = [dirs EXCEPT ![d] = (f :> SavedFiles(models, scalers, metadata)[f]) @@ @]
        /\ called' = Append(called, WriteCall(f))
        /\ stage' = IF Len(pending) = 1 THEN "repoint" ELSE "writing"
  /\ UNCHANGED <<cfg, error, trainerObj, raw, processed, processedData,
                 clock, latest, runs, evalOut, saveLog, outcome, notTrain>>

\* Lines 336-340: an existing 'latest' is unlinked when it is a link and
\* given to os.remove otherwise.
RemoveLatest ==
  /\ stage = "repoint"
  /\ IF LatestExists(latest, dirs)
     THEN IF latest.kind = "link"
          THEN /\ latest' = [kind |-> "none"]
               /\ stage' = "link"
               /\ UNCHANGED <<error, saveLog>>
          ELSE /\ Fail("save", "os.remove: is a directory")
               /\ saveLog' = Finish(saveLog, latest, "os.remove: is a directory")
               /\ UNCHANGED latest
     ELSE /\ stage' = "link"
          /\ UNCHANGED <<latest, error, saveLog>>
  /\ UNCHANGED <<cfg, trainerObj, raw, processed, processedData,
                 clock, dirs, runs, evalOut, called, outcome, notTrain>>

\* Line 343: os.symlink(basename of the run directory, 'latest'). The run
\* directory is the one the log's last record names.
LinkLatest ==
  /\ stage = "link"
  /\ IF latest.kind = "none"
     THEN /\ latest' = [kind |-> "link", target |-> saveLog[Len(saveLog)].dir]
          /\ stage' = "saved"
          /\ saveLog' = Finish(saveLog, latest', "none")
          /\ UNCHANGED error
     ELSE /\ Fail("save", "os.symlink: file exists")
          /\ saveLog' = Finish(saveLog, latest, "os.symlink: file exists")
          /\ UNCHANGED latest
  /\ UNCHANGED <<cfg, trainerObj, raw, processed, processedData,
                 clock, dirs, runs, evalOut, called, outcome, notTrain>>

\* Another process resolves <model_dir>/latest, at any moment.
ResolveLatest ==
  /\ stage # "idle"
  /\ evalOut' = [fn     |-> "resolve_latest",
                 during |-> stage,
                 found  |-> IF LatestExists(latest, dirs)
                            THEN latest
                            ELSE [kind |-> "absent"]]
  /\ UNCHANGED <<cfg, stage, error, trainerObj, raw, processed, processedData,
                 clock, dirs, latest, runs, saveLog, called, outcome, notTrain>>

(***************************************************************************)
(* ARTIFACT LOADING OF THE EVALUATOR (model_evaluator.py)                  *)
(***************************************************************************)
\* The model file the evaluator looks for (lines 301, 500).
EvaluatorModelFile(model_type) == model_type \o "_model.pkl"

\* The files the evaluator opens without testing that they exist
\* (lines 307-316, 506-515), in the order it opens them.
RequiredArtifacts == <<"feature_scaler.pkl", "feature_mapping.json", "disease_mapping.json">>

\* Lines 298-316 and 497-516: load every model whose file exists, then
\* open the scaler and the two mapping files.
LoadArtifacts(files) ==
  LET loaded  == {t \in Range(ModelTypes) : EvaluatorModelFile(t) \in DOMAIN files}
      missing == SelectSeq(RequiredArtifacts, LAMBDA f : f \notin DOMAIN files)
  IN [loaded |-> loaded,
      err |-> IF missing = <<>> THEN "none" ELSE <<"FileNotFoundError", missing[1]>>]

\* evaluate_disease_prediction on a run directory written by save_models.
EvaluateDiseasePrediction ==
  /\ stage = "saved" /\ evalOut = <<>>
  /\ \E ts \in DOMAIN dirs :
       evalOut' = [fn |-> "evaluate_disease_prediction", dir |-> ts] @@ LoadArtifacts(dirs[ts])
  /\ UNCHANGED <<cfg, stage, error, trainerObj, raw, processed, processedData,
                 clock, dirs, latest, runs, saveLog, called, outcome, notTrain>>

\* evaluate_end_to_end on a run directory written by save_models.
EvaluateEndToEnd ==
  /\ stage = "saved" /\ evalOut = <<>>
  /\ \E ts \in DOMAIN dirs :
       evalOut' = [fn |-> "evaluate_end_to_end", dir |-> ts] @@ LoadArtifacts(dirs[ts])
  /\ UNCHANGED <<cfg, stage, error, trainerObj, raw, processed, processedData,
                 clock, dirs, latest, runs, saveLog, called, outcome, notTrain>>

(***************************************************************************)
(* METRICS OF ONE MODEL (model_evaluator.py                                *)
(*  _evaluate_disease_prediction_model)                                    *)
(***************************************************************************)
\* Label indices: the values of a disease mapping over DiseaseIds, and one
\* more that a model can know.
LabelIndices == 0..Cardinality(DiseaseIds)

\* Values y_test can hold: a label index, or -1 for an unknown disease
\* (line 367).
TestLabels == LabelIndices \cup {-1}

\* sklearn confusion_matrix(y_true, y_pred) without labels=: the labels are
\* the sorted values that occur in y_true or y_pred.
ObservedLabels(y_test, y_pred) == SortedSeq(Range(y_test) \cup Range(y_pred))

\* Line 393: rows are true labels, columns predicted labels.
confusion_matrix(y_test, y_pred, labels) ==
  [i \in 1..Len(labels) |->
     [j \in 1..Len(labels) |->
        Cardinality({k \in 1..Len(y_test) : y_test[k] = labels[i] /\ y_pred[k] = labels[j]})]]

\* len(np.unique(y_test == disease_idx)): the outcomes of the one-vs-rest vector.
OneVsRest(y_test, disease_idx) == {y_test[k] = disease_idx : k \in 1..Len(y_test)}

\* Every disease gets an entry.
HasRocAucAlways(y_test, disease_idx) == TRUE

\* Line 398: both outcomes are present.
HasRocAuc(y_test, disease_idx) == Cardinality(OneVsRest(y_test, disease_idx)) > 1

\* Lines 396-399. predict_proba has one column per class the model knows;
\* y_pred_proba[:, disease_idx] raises IndexError past the last column, and
\* roc_auc_score raises ValueError for a vector with one outcome.
RocAuc(y_test, disease_mapping, n_classes) ==
  LET scored == {d \in DOMAIN disease_mapping : HasRocAuc(y_test, disease_mapping[d])}
  IN IF \E d \in scored : disease_mapping[d] >= n_classes
     THEN [entries |-> {}, err |-> "IndexError"]
     ELSE IF \E d \in scored : Cardinality(OneVsRest(y_test, disease_mapping[d])) < 2
     THEN [entries |-> {}, err |-> "ValueError: only one class present in y_true"]
     ELSE [entries |-> scored, err |-> "none"]

\* _evaluate_disease_prediction_model (lines 371-411): the parts of the
\* report the confusion matrix and the ROC-AUC loop fill.
EvaluateModel(y_test, y_pred, disease_mapping, n_classes) ==
  LET roc == RocAuc(y_test, disease_mapping, n_classes)
  IN IF roc.err # "none"
     THEN [err |-> roc.err]
     ELSE [err |-> "none",
           per_class |-> DOMAIN disease_mapping,
           roc_auc |-> roc.entries,
           confusion_matrix |->
             confusion_matrix(y_test, y_pred, ObservedLabels(y_test, y_pred))]

\* A model that knows the classes 0..n_classes-1 predicts one of them for
\* every row of a non-empty test set.
EvaluateModelInputs ==
  UNION {[y_test : [1..n -> TestLabels],
          y_pred : [1..n -> 0..(c - 1)],
          disease_mapping : {dm \in IndexMappings(DiseaseIds) : DOMAIN dm # {}},
          n_classes : {c}] : n \in 1..MaxTest, c \in 1..(Cardinality(DiseaseIds) + 1)}

EvIdle == evFn = "none" /\ evIn = <<>> /\ evOut = <<>>

MetricsInit ==
  /\ evFn = "_evaluate_disease_prediction_model"
  /\ evIn \in EvaluateModelInputs
  /\ evOut = <<>>

EvaluateDiseasePredictionModel ==
  /\ evFn = "_evaluate_disease_prediction_model" /\ evOut = <<>>
  /\ evOut' = EvaluateModel(evIn.y_test, evIn.y_pred, evIn.disease_mapping, evIn.n_classes)
  /\ UNCHANGED <<evFn, evIn, notEv>>

(***************************************************************************)
(* SPAN MATCHING OF THE END-TO-END EVALUATION (model_evaluator.py          *)
(*  evaluate_end_to_end, over the symptom_labels.json that                 *)
(*  symptom_extraction_trainer.py train_all_models writes)                 *)
(***************************************************************************)
\* Texts are sequences of characters.
LowerChar(c) ==
  CASE c = "A" -> "a" [] c = "B" -> "b" [] c = "S" -> "s" [] OTHER -> c

\* str.lower()
Lower(t) == [i \in 1..Len(t) |-> LowerChar(t[i])]

\* a in b, for texts.
IsSubstring(a, b) ==
  \E i \in 0..(Len(b) - Len(a)) : SubSeq(b, i + 1, i + Len(a)) = a

\* The characters of a symptom id.
IdText(id) == IF id = "S1" THEN <<"S", "1">> ELSE <<"S", "2">>

\* sorted(unique_symptoms) (symptom_extraction_trainer.py line 89).
SortedIds(ids) == SelectSeq(<<"S1", "S2">>, LAMBDA x : x \in ids)

\* The key json.dump writes for an integer key.
JsonKey(i) == <<"0", "1", "2", "3">>[i + 1]

\* symptom_labels.json (symptom_extraction_trainer.py lines 84-89, 424-426):
\* symptom_to_id numbers the annotated symptom ids, id_to_symptom is its
\* inverse, keyed by the number.
SymptomLabels(annotated) ==
  LET symptom_to_id == Enumerate(SortedIds(annotated))
  IN [symptom_to_id |-> symptom_to_id,
      id_to_symptom |->
        [k \in {JsonKey(symptom_to_id[x]) : x \in annotated} |->
           CHOOSE x \in annotated : JsonKey(symptom_to_id[x]) = k]]

\* Lines 532-537: the first key of feature_mapping, in its iteration order,
\* that is a key of id_to_symptom and whose entry contains the span's text;
\* <<>> when there is none.
FirstMatch(symptom_text, keys, id_to_symptom) ==
  SelectSeq(keys, LAMBDA symptom_id :
              /\ symptom_id \in DOMAIN id_to_symptom
              /\ IsSubstring(symptom_text, Lower(IdText(id_to_symptom[symptom_id]))))

\* Lines 528-537: the feature vector of one test text, built from the spans
\* the extractor returned.
MatchSpans(spans, keys, feature_mapping, id_to_symptom) ==
  LET hits == {feature_mapping[FirstMatch(Lower(spans[k]), keys, id_to_symptom)[1]] :
                 k \in {j \in 1..Len(spans) :
                          FirstMatch(Lower(spans[j]), keys, id_to_symptom) # <<>>}}
  IN [i \in 0..(Cardinality(DOMAIN feature_mapping) - 1) |->
        IF i \in hits THEN 1 ELSE 0]

\* Display names of the symptom table and texts of extracted spans.
NameTexts == {<<"A", "b">>, <<"a", "B">>, <<"b">>}
SpanTexts == {<<"a">>, <<"B">>, <<"b", "b">>}

\* feature_mapping with the order its keys are iterated in.
EndToEndInputs ==
  {in \in [spans : SeqsUpTo(SpanTexts, MaxSpans),
           feature_mapping : IndexMappings(TableSymptomIds),
           keys : InjSeqsUpTo(TableSymptomIds, Cardinality(TableSymptomIds)),
           names : [TableSymptomIds -> NameTexts],
           annotated : SUBSET TableSymptomIds] :
     Range(in.keys) = DOMAIN in.feature_mapping}

EndToEndInit ==
  /\ evFn = "evaluate_end_to_end"
  /\ evIn \in EndToEndInputs
  /\ evOut = <<>>

\* The feature vector evaluate_end_to_end builds for one test text.
MatchExtractedSpans ==
  /\ evFn = "evaluate_end_to_end" /\ evOut = <<>>
  /\ evOut' = [feature_vector |->
                 MatchSpans(evIn.spans, evIn.keys, evIn.feature_mapping,
                            SymptomLabels(evIn.annotated).id_to_symptom)]
  /\ UNCHANGED <<evFn, evIn, notEv>>

(***************************************************************************)
(* SYNTHETIC CASES (data_generator.py generate_diseases,                   *)
(*  generate_symptom_disease_relationships)                                *)
(***************************************************************************)
\* The symptom ids of the built-in symptom list.
BuiltInSymptomIds == {"S001", "S002", "S003", "S004", "S005"}

Disease(common, required, exclusionary) ==
  [common_symptoms |-> common, required_symptoms |-> required,
   exclusionary_symptoms |-> exclusionary]

\* The symptom sets of the diseases returned when no base file exists.
BuiltInDiseases ==
  {Disease({"S002", "S003", "S004"}, {"S002"}, {}),
   Disease({"S001", "S002", "S003", "S004"}, {"S001", "S004"}, {}),
   Disease({"S003", "S005"}, {"S003"}, {}),
   Disease({"S001", "S004", "S005"}, {"S005"}, {})}

\* random.sample(S, n) for n = random.randint(lo, hi), as a set.
Samples(S, lo, hi) == {X \in SUBSET S : Cardinality(X) \in lo..hi}

AtMost(a, b) == IF a < b THEN a ELSE b

\* The symptom sets generate_diseases can draw for an additional disease.
GeneratedDiseases(symptom_ids) ==
  UNION {UNION {{Disease(c, r, e) :
                   e \in {{}} \cup Samples(symptom_ids \ c, 1,
                                           AtMost(2, Cardinality(symptom_ids \ c)))} :
                r \in Samples(c, 1, AtMost(2, Cardinality(c)))} :
         c \in Samples(symptom_ids, 2, AtMost(5, Cardinality(symptom_ids)))}

\* The symptom sets of a disease read from base_diseases.json: the file is
\* returned as it is.
BaseFileDiseases ==
  {Disease(c, r, e) : c \in Samples(BuiltInSymptomIds, 0, MaxSymptomSet),
                      r \in Samples(BuiltInSymptomIds, 0, MaxSymptomSet),
                      e \in Samples(BuiltInSymptomIds, 0, MaxSymptomSet)}

\* The symptoms not yet selected that the generator may add as noise.
AvailableSymptoms(disease, all_symptom_ids, selected_symptoms) ==
  (all_symptom_ids \ selected_symptoms) \ disease.exclusionary_symptoms

\* The symptom sets generate_symptom_disease_relationships can select for a
\* case of the disease: every required symptom, a sample of the remaining
\* common symptoms, and sometimes one or two of the available symptoms.
CaseSymptoms(disease, all_symptom_ids) ==
  UNION {{(disease.required_symptoms \cup some_common) \cup additional :
            additional \in {{}} \cup
              Samples(AvailableSymptoms(disease, all_symptom_ids,
                                        disease.required_symptoms \cup some_common),
                      1,
                      AtMost(2, Cardinality(
                        AvailableSymptoms(disease, all_symptom_ids,
                                          disease.required_symptoms \cup some_common))))} :
         some_common \in SUBSET (disease.common_symptoms \ disease.required_symptoms)}

GenerateInputs ==
  {[source |-> "built_in", disease |-> d] : d \in BuiltInDiseases}
    \cup {[source |-> "generated", disease |-> d] :
            d \in GeneratedDiseases(BuiltInSymptomIds)}
    \cup {[source |-> "base_file", disease |-> d] : d \in BaseFileDiseases}

GenerateInit ==
  /\ evFn = "generate_symptom_disease_relationships"
  /\ evIn \in GenerateInputs
  /\ evOut = <<>>

\* One case of generate_symptom_disease_relationships.
GenerateCase ==
  /\ evFn = "generate_symptom_disease_relationships" /\ evOut = <<>>
  /\ evOut' \in {[symptoms |-> s] : s \in CaseSymptoms(evIn.disease, BuiltInSymptomIds)}
  /\ UNCHANGED <<evFn, evIn, notEv>>

(***************************************************************************)
(* PIPELINE ORCHESTRATOR (train_pipeline.py) over the operations that      *)
(*  data_loader.py and model_trainer.py provide                            *)
(***************************************************************************)
\* A method signature: the parameters after self, the first `required` of
\* which have no default.
Sig(params, required) == [params |-> params, required |-> required]

\* The operations of MedicalDataLoader (data_loader.py).
MedicalDataLoaderMethods ==
  ("__init__" :> Sig(<<"data_dir">>, 0))
  @@ ("load_symptom_data" :> Sig(<<>>, 0))
  @@ ("load_disease_data" :> Sig(<<>>, 0))
  @@ ("load_symptom_text_data" :> Sig(<<>>, 0))
  @@ ("prepare_symptom_extraction_data" :> Sig(<<>>, 0))
  @@ ("prepare_disease_prediction_data" :> Sig(<<>>, 0))
  @@ ("split_data" :> Sig(<<"X", "y", "test_size", "val_size", "random_state">>, 2))
  @@ ("save_processed_data" :>
        Sig(<<"X_train", "y_train", "X_val", "y_val", "X_test", "y_test",
              "output_dir">>, 6))

\* The operations of DiseasePredictionTrainer (model_trainer.py).
DiseasePredictionTrainerMethods ==
  ("__init__" :> Sig(<<"data_dir", "model_dir">>, 0))
  @@ ("load_data" :> Sig(<<>>, 0))
  @@ ("preprocess_data" :> Sig(<<"X_train", "X_val", "X_test">>, 3))
  @@ ("train_models" :> Sig(<<"X_train", "y_train", "X_val", "y_val">>, 4))
  @@ ("evaluate_model" :> Sig(<<"model", "X_test", "y_test">>, 3))
  @@ ("save_models" :> Sig(<<>>, 0))
  @@ ("train_and_evaluate" :> Sig(<<>>, 0))

Provided ==
  ("MedicalDataLoader" :> MedicalDataLoaderMethods)
  @@ ("DiseasePredictionTrainer" :> DiseasePredictionTrainerMethods)

\* A call with `positional` positional arguments and the keyword arguments
\* `keywords`.
Call(cls, method, positional, keywords) ==
  [cls |-> cls, method |-> method, positional |-> positional, keywords |-> keywords]

\* Python binds the arguments of a call to the parameters of the method. The
\* operations of the other classes are taken to accept their calls.
Accepts(call) ==
  \/ call.cls \notin DOMAIN Provided
  \/ /\ call.method \in DOMAIN Provided[call.cls]
     /\ LET sig == Provided[call.cls][call.method]
        IN /\ call.positional <= Len(sig.params)
           /\ call.keywords \subseteq
                {sig.params[i] : i \in (call.positional + 1)..Len(sig.params)}
           /\ \A i \in (call.positional + 1)..sig.required :
                sig.params[i] \in call.keywords

\* The exception of a call that is not accepted.
Rejection(call) ==
  IF call.method \in DOMAIN Provided[call.cls] THEN "TypeError" ELSE "AttributeError"

SplitArguments == {"test_size", "validation_size", "random_state"}

\* The calls a stage of the orchestrator makes on the pipeline classes, in
\* order (lines 61-254).
StageCalls(stage_name, args) ==
  CASE stage_name = "setup_directories" -> <<>>
    [] stage_name = "generate_synthetic_data" ->
         <<Call("SyntheticDataGenerator", "__init__", 0, {"output_dir", "seed"}),
           Call("SyntheticDataGenerator", "generate_all_data", 0,
                {"num_symptoms", "num_diseases", "num_text_samples", "num_cases"})>>
    [] stage_name = "prepare_training_data" ->
         <<Call("MedicalDataLoader", "__init__", 0, {"data_dir", "output_dir"}),
           Call("MedicalDataLoader", "load_symptom_data", 1, {}),
           Call("MedicalDataLoader", "load_disease_data", 1, {}),
           Call("MedicalDataLoader", "load_symptom_text_data", 1, {}),
           Call("MedicalDataLoader", "load_symptom_disease_relationships", 1, {}),
           Call("MedicalDataLoader", "prepare_symptom_extraction_data", 0, SplitArguments),
           Call("MedicalDataLoader", "prepare_disease_prediction_data", 0, SplitArguments),
           Call("MedicalDataLoader", "save_processed_data", 0, {})>>
    [] stage_name = "train_symptom_extraction_model" ->
         <<Call("SymptomExtractionTrainer", "__init__", 0,
                {"model_name", "max_length", "batch_size", "learning_rate", "epochs",
                 "output_dir"}),
           Call("SymptomExtractionTrainer", "train_all_models", 1, {})>>
    [] stage_name = "train_disease_prediction_model" ->
         <<Call("DiseasePredictionTrainer", "__init__", 0, {"output_dir", "random_state"}),
           Call("DiseasePredictionTrainer", "load_data", 2, {})>>
         \o (IF args.train_random_forest
             THEN <<Call("DiseasePredictionTrainer", "train_random_forest", 0,
                         {"n_estimators", "max_depth"})>>
             ELSE <<>>)
         \o (IF args.train_gradient_boosting
             THEN <<Call("DiseasePredictionTrainer", "train_gradient_boosting", 0,
                         {"n_estimators", "learning_rate", "max_depth"})>>
             ELSE <<>>)
         \o (IF args.train_neural_network
             THEN <<Call("DiseasePredictionTrainer", "train_neural_network", 0,
                         {"hidden_layer_sizes", "learning_rate_init", "max_iter"})>>
             ELSE <<>>)
         \o <<Call("DiseasePredictionTrainer", "evaluate_models", 0, {}),
              Call("DiseasePredictionTrainer", "save_models", 0, {})>>
    [] stage_name = "evaluate_models" ->
         <<Call("ModelEvaluator", "__init__", 0, {"output_dir"}),
           Call("ModelEvaluator", "evaluate_symptom_extraction", 2, {}),
           Call("ModelEvaluator", "evaluate_disease_prediction", 2, {}),
           Call("ModelEvaluator", "evaluate_end_to_end", 3, {})>>

\* The stages main runs for the given arguments (lines 265-285).
Stages(args) ==
  <<"setup_directories">>
  \o (IF args.generate_data THEN <<"generate_synthetic_data">> ELSE <<>>)
  \o <<"prepare_training_data">>
  \o (IF args.train_symptom_extraction THEN <<"train_symptom_extraction_model">> ELSE <<>>)
  \o (IF args.train_disease_prediction THEN <<"train_disease_prediction_model">> ELSE <<>>)
  \o (IF args.evaluate_models THEN <<"evaluate_models">> ELSE <<>>)

\* The stages entered, the calls made and the exception that ended the run.
RECURSIVE RunStages(_, _)
RunStages(stages, args) ==
  IF stages = <<>>
  THEN [entered |-> <<>>, made |-> <<>>, error |-> [kind |-> "none"]]
  ELSE LET cs  == StageCalls(Head(stages), args)
           bad == {i \in 1..Len(cs) : ~Accepts(cs[i])}
       IN IF bad # {}
          THEN LET k == CHOOSE i \in bad : \A j \in bad : i <= j
               IN [entered |-> <<Head(stages)>>,
                   made    |-> SubSeq(cs, 1, k),
                   error   |-> [kind  |-> Rejection(cs[k]),
                                stage |-> Head(stages),
                                call  |-> cs[k]]]
          ELSE LET rest == RunStages(Tail(stages), args)
               IN [entered |-> <<Head(stages)>> \o rest.entered,
                   made    |-> cs \o rest.made,
                   error   |-> rest.error]

\* main (lines 257-287): 'AI/ML pipeline training complete' is logged when no
\* stage raised.
main(args) ==
  LET r == RunStages(Stages(args), args)
  IN [entered |-> r.entered, made |-> r.made, error |-> r.error,
      complete |-> r.error.kind = "none"]

PipelineArguments ==
  [generate_data : BOOLEAN, train_symptom_extraction : BOOLEAN,
   train_disease_prediction : BOOLEAN, evaluate_models : BOOLEAN,
   train_random_forest : BOOLEAN, train_gradient_boosting : BOOLEAN,
   train_neural_network : BOOLEAN]

PipelineInit ==
  /\ evFn = "main"
  /\ evIn \in PipelineArguments
  /\ evOut = <<>>

RunPipeline ==
  /\ evFn = "main" /\ evOut = <<>>
  /\ evOut' = main(evIn)
  /\ UNCHANGED <<evFn, evIn, notEv>>

(***************************************************************************)
(* ENTITIES OF THE NER MODEL (model_evaluator.py _extract_symptoms,        *)
(*  _evaluate_ner_model)                                                   *)
(***************************************************************************)
\* A text is a sequence of characters; text[start:end] of Python is
\* Slice(text, start, end).
TextChars == {"a", " "}
Texts == UNION {[1..n -> TextChars] : n \in 1..MaxTextLen}
Slice(text, start, end) == SubSeq(text, start + 1, end)

\* The token labels of the NER model.
Outside == [tag |-> "O"]
NerLabels == {[tag |-> "B", label |-> "SYMPTOM"], [tag |-> "I", label |-> "SYMPTOM"], Outside}

\* The character spans a tokenizer can give a token: a word or a piece of a
\* word, never white space.
Pieces(text) ==
  {p \in (0..Len(text)) \X (0..Len(text)) :
     p[1] < p[2] /\ \A k \in (p[1] + 1)..p[2] : text[k] # " "}

RECURSIVE ByStart(_)
ByStart(ps) ==
  IF ps = {} THEN <<>>
  ELSE LET p == CHOOSE x \in ps : \A y \in ps : x[1] <= y[1]
       IN <<p>> \o ByStart(ps \ {p})

\* The offset mappings of a text: every character that is not white space
\* lies in exactly one token, and the special tokens at both ends have the
\* span (0, 0).
OffsetMappings(text) ==
  {<<<<0, 0>>>> \o ByStart(ps) \o <<<<0, 0>>>> :
     ps \in {qs \in SUBSET Pieces(text) :
               \A k \in 1..Len(text) :
                 text[k] # " " =>
                   Cardinality({q \in qs : q[1] < k /\ k <= q[2]}) = 1}}

\* The loop of lines 597-628 (and 144-173) from token i on; current is <<>>
\* for None and <<entity>> otherwise.
RECURSIVE EntityLoop(_, _, _, _, _, _)
EntityLoop(text, offset_mapping, predictions, i, entities, current) ==
  IF i > Len(offset_mapping)
  THEN entities \o current
  ELSE LET start_char == offset_mapping[i][1]
           end_char   == offset_mapping[i][2]
           pred_label == predictions[i]
       IN IF start_char = 0 /\ end_char = 0
          THEN EntityLoop(text, offset_mapping, predictions, i + 1, entities, current)
          ELSE IF pred_label.tag = "B"
          THEN EntityLoop(text, offset_mapping, predictions, i + 1,
                          entities \o current,
                          <<[text  |-> Slice(text, start_char, end_char),
                             start |-> start_char,
                             end   |-> end_char,
                             label |-> pred_label.label]>>)
          ELSE IF pred_label.tag = "I" /\ current # <<>>
          THEN EntityLoop(text, offset_mapping, predictions, i + 1,
                          entities,
                          <<[current[1] EXCEPT
                               !.text = @ \o Slice(text, start_char, end_char),
                               !.end  = end_char]>>)
          ELSE EntityLoop(text, offset_mapping, predictions, i + 1,
                          entities \o current, <<>>)

\* _extract_symptoms (lines 579-630) after the model has labelled the tokens.
extract_symptoms(text, offset_mapping, predictions) ==
  EntityLoop(text, offset_mapping, predictions, 1, <<>>, <<>>)

\* A metric as the fraction <<numerator, denominator>>.
Ratio(n, d) == IF d > 0 THEN <<n, d>> ELSE <<0, 1>>

\* 2 * p * r / (p + r) if (p + r) > 0 else 0, on fractions.
F1(p, r) ==
  IF p[1] * r[2] + r[1] * p[2] > 0
  THEN <<2 * p[1] * r[1], p[1] * r[2] + r[1] * p[2]>>
  ELSE <<0, 1>>

ExactMatch(true_entity, pred_entity) ==
  true_entity.start = pred_entity.start /\ true_entity.end = pred_entity.end

\* max(starts) < min(ends).
PartialMatch(true_entity, pred_entity) ==
  (IF true_entity.start > pred_entity.start THEN true_entity.start ELSE pred_entity.start)
    < (IF true_entity.end < pred_entity.end THEN true_entity.end ELSE pred_entity.end)

\* The inner loops of lines 183-197: a true entity counts once when some
\* predicted entity matches it.
ExactMatches(true_item, pred_item) ==
  Cardinality({i \in 1..Len(true_item) :
                 \E j \in 1..Len(pred_item) : ExactMatch(true_item[i], pred_item[j])})

PartialMatches(true_item, pred_item) ==
  Cardinality({i \in 1..Len(true_item) :
                 \E j \in 1..Len(pred_item) : PartialMatch(true_item[i], pred_item[j])})

\* The metrics of _evaluate_ner_model for one test item (lines 177-226).
ner_metrics(true_item, pred_item) ==
  LET total_true    == Len(true_item)
      total_pred    == Len(pred_item)
      exact_match   == ExactMatches(true_item, pred_item)
      partial_match == PartialMatches(true_item, pred_item)
  IN [exact_match   |-> [precision |-> Ratio(exact_match, total_pred),
                         recall    |-> Ratio(exact_match, total_true),
                         f1        |-> F1(Ratio(exact_match, total_pred),
                                          Ratio(exact_match, total_true))],
      partial_match |-> [precision |-> Ratio(partial_match, total_pred),
                         recall    |-> Ratio(partial_match, total_true),
                         f1        |-> F1(Ratio(partial_match, total_pred),
                                          Ratio(partial_match, total_true))],
      counts |-> [true_entities      |-> total_true,
                  predicted_entities |-> total_pred,
                  exact_matches      |-> exact_match,
                  partial_matches    |-> partial_match]]

\* A text, its tokens and the label the model gives each token.
ExtractInputs ==
  UNION {UNION {[text : {t}, offset_mapping : {om},
                 predictions : [1..Len(om) -> NerLabels]] :
                om \in OffsetMappings(t)} : t \in Texts}

\* The annotated entities of a test item: one or two spans of the text.
TrueEntities(text) ==
  LET spans == {[start |-> p[1], end |-> p[2]] :
                  p \in {q \in (0..Len(text)) \X (0..Len(text)) : q[1] < q[2]}}
  IN {<<a>> : a \in spans} \cup {<<a, b>> : a \in spans, b \in spans}

\* A test item: the label of a special token is not read, it is taken as O.
NerEvaluationInputs ==
  UNION {[text : {in.text}, offset_mapping : {in.offset_mapping},
          predictions : {in.predictions}, true_entities : TrueEntities(in.text)] :
         in \in {x \in ExtractInputs :
                   /\ x.predictions[1] = Outside
                   /\ x.predictions[Len(x.predictions)] = Outside}}

NerInit ==
  /\ evOut = <<>>
  /\ \/ evFn = "_extract_symptoms" /\ evIn \in ExtractInputs
     \/ evFn = "_evaluate_ner_model" /\ evIn \in NerEvaluationInputs

ExtractSymptoms ==
  /\ evFn = "_extract_symptoms" /\ evOut = <<>>
  /\ evOut' = [entities |-> extract_symptoms(evIn.text, evIn.offset_mapping, evIn.predictions)]
  /\ UNCHANGED <<evFn, evIn, notEv>>

EvaluateNerModel ==
  /\ evFn = "_evaluate_ner_model" /\ evOut = <<>>
  /\ evOut' = ner_metrics(evIn.true_entities,
                          extract_symptoms(evIn.text, evIn.offset_mapping, evIn.predictions))
  /\ UNCHANGED <<evFn, evIn, notEv>>

(***************************************************************************)
(* SPECIFICATIONS                                                          *)
(***************************************************************************)
AppIdle == AppInit

\* The front-end: script reruns caused by widget interactions.
InitApp == AppInit /\ EncIdle /\ SplitIdle /\ TrainIdle /\ EvIdle
NextApp ==
  \/ EditSymptoms \/ EditAllergies \/ ClickAnalyze
  \/ EditFeedback \/ SubmitFeedback
SpecApp == InitApp /\ [][NextApp]_vars

\* The encoders applied to bounded inputs.
InitEncode == EncInit /\ AppIdle /\ SplitIdle /\ TrainIdle /\ EvIdle
NextEncode == EncodeTraining \/ EncodeEvaluation
SpecEncode == InitEncode /\ [][NextEncode]_vars

\* The table loaders applied to files that exist or not.
InitLoad == LoadInit /\ AppIdle /\ SplitIdle /\ TrainIdle /\ EvIdle
NextLoad == LoadTable \/ PrepareFromFiles
SpecLoad == InitLoad /\ [][NextLoad]_vars

\* One model evaluated on bounded test sets.
InitMetrics == MetricsInit /\ AppIdle /\ EncIdle /\ SplitIdle /\ TrainIdle
NextMetrics == EvaluateDiseasePredictionModel
SpecMetrics == InitMetrics /\ [][NextMetrics]_vars

\* The span matching of the end-to-end evaluation on bounded inputs.
InitEndToEnd == EndToEndInit /\ AppIdle /\ EncIdle /\ SplitIdle /\ TrainIdle
NextEndToEnd == MatchExtractedSpans
SpecEndToEnd == InitEndToEnd /\ [][NextEndToEnd]_vars

\* split_data applied row by row to bounded data sets.
InitSplit == SplitInit /\ AppIdle /\ EncIdle /\ TrainIdle /\ EvIdle
NextSplit == SplitData
SpecSplit == InitSplit /\ [][NextSplit]_vars

\* generate_symptom_disease_relationships applied to one disease of a
\* built-in, generated or base-file disease list.
InitGenerate == GenerateInit /\ AppIdle /\ EncIdle /\ SplitIdle /\ TrainIdle
NextGenerate == GenerateCase
SpecGenerate == InitGenerate /\ [][NextGenerate]_vars

\* The orchestrator run with each choice of its stage switches.
InitPipeline == PipelineInit /\ AppIdle /\ EncIdle /\ SplitIdle /\ TrainIdle
NextPipeline == RunPipeline
SpecPipeline == InitPipeline /\ [][NextPipeline]_vars

\* The entity loop and the NER metrics applied to short texts.
InitNer == NerInit /\ AppIdle /\ EncIdle /\ SplitIdle /\ TrainIdle
NextNer == ExtractSymptoms \/ EvaluateNerModel
SpecNer == InitNer /\ [][NextNer]_vars

\* split_data applied to the class counts of data sets of up to MaxSamples rows.
InitSplitSizes == SizeInit /\ AppIdle /\ EncIdle /\ TrainIdle /\ EvIdle
NextSplitSizes == SplitDataSizes
SpecSplitSizes == InitSplitSizes /\ [][NextSplitSizes]_vars

\* Training runs on one data and model directory, and the evaluator
\* loading what a run saved.
InitTrain == TrainInit /\ AppIdle /\ EncIdle /\ SplitIdle /\ EvIdle
NextTrain ==
  \/ LoadData \/ PreprocessData \/ TrainModels \/ EvaluateModels \/ SaveModels
  \/ ReportOutcome \/ NewRun \/ Tick \/ EvaluateDiseasePrediction \/ EvaluateEndToEnd
SpecTrain == InitTrain /\ [][NextTrain]_vars

\* Training runs of one configuration with save_models taken step by step,
\* next to a process that resolves 'latest'.
InitSave ==
  /\ InitTrain
  /\ cfg = [models_to_train |-> {"random_forest"},
            calibrate_probabilities |-> TRUE,
            scale_features |-> TRUE]
NextSave ==
  \/ LoadData \/ PreprocessData \/ TrainModels \/ EvaluateModels
  \/ WriteRunDirectory \/ RemoveLatest \/ LinkLatest
  \/ ReportOutcome \/ NewRun \/ Tick \/ ResolveLatest
SpecSave == InitSave /\ [][NextSave]_vars

\* Training runs of one configuration with save_models taken file by file.
NextSaveFiles ==
  \/ LoadData \/ PreprocessData \/ TrainModels \/ EvaluateModels
  \/ MakeRunDirectory \/ WriteRunFile \/ RemoveLatest \/ LinkLatest
  \/ ReportOutcome \/ NewRun \/ Tick
SpecSaveFiles == InitSave /\ [][NextSaveFiles]_vars

(***************************************************************************)
(* CLAIMS                                                                  *)
(***************************************************************************)
\* The names of the medication collaborators.
MedicationCalls == {"meds_for_disease", "allergy_filter", "compute_dose"}
MedicationOutput == {"medication", "med_heading", "no_entries"}

\* C1: in every Analyze run in which the red-flag filter returned a non-empty
\* list, no medication entry is rendered and none of meds_for_disease,
\* allergy_filter, compute_dose is called, whatever the ranked predictions.
C1_RedFlagsSuppressMedication ==
  refer_reasons # <<>> =>
    /\ \A i \in 1..Len(calls) : calls[i][1] \notin MedicationCalls
    /\ \A i \in 1..Len(screen) : screen[i][1] \notin MedicationOutput

\* An Analyze run with red flags that reached the medication section with a
\* non-empty ranking, and showed the suppression notice.
C1_Witness ==
  /\ refer_reasons # <<>>
  /\ \E i \in 1..Len(screen) : screen[i][1] = "condition"
  /\ \E i \in 1..Len(screen) : screen[i] = <<"info", "Suppressed due to red flags.">>

EncApplied == encOut # <<>>

\* The symptom ids the relationship table lists for case c.
SymptomsOfCase(rows, c) ==
  {rows[k].symptom_id : k \in {j \in 1..Len(rows) : rows[j].case_id = c}}

\* vec is the indicator vector of the id set present over the universe whose
\* id at index i is idAt[i], for i in 0..n-1.
IsIndicator(vec, present, idAt, n) ==
  /\ DOMAIN vec = 0..(n - 1)
  /\ \A i \in 0..(n - 1) : vec[i] = IF idAt[i] \in present THEN 1 ELSE 0

C2_Training ==
  (encFn = "train" /\ EncApplied) =>
    LET universe == Unique(encIn.symptom_ids)
        idAt     == [i \in 0..(Len(universe) - 1) |-> universe[i + 1]]
    IN \A r \in 1..Len(encOut.X) :
         IsIndicator(encOut.X[r], SymptomsOfCase(encIn.rows, encOut.src[r]),
                     idAt, Len(universe))

C2_Evaluation ==
  (encFn = "eval" /\ EncApplied) =>
    LET fm   == encIn.feature_mapping
        n    == Cardinality(DOMAIN fm)
        idAt == [i \in 0..(n - 1) |-> CHOOSE id \in DOMAIN fm : fm[id] = i]
    IN /\ encOut.err = "none"
       /\ Len(encOut.X) = Len(encIn.test_data)
       /\ \A c \in 1..Len(encOut.X) :
            IsIndicator(encOut.X[c], Range(encIn.test_data[c].symptoms), idAt, n)

\* C2: every encoded feature vector has the length of the symptom universe,
\* holds 1 exactly at the indices of the case's symptom ids that are in the
\* universe and 0 elsewhere; ids outside the universe change nothing and
\* raise no error. Both for the training and for the evaluation encoder.
C2_FeatureVector == C2_Training /\ C2_Evaluation

\* A training encode of a case that lists a symptom of the universe and one
\* outside it.
C2_Witness ==
  /\ encFn = "train" /\ EncApplied
  /\ Len(encOut.X) > 0
  /\ \E i \in DOMAIN encOut.X[1] : encOut.X[1][i] = 1
  /\ \E i \in DOMAIN encOut.X[1] : encOut.X[1][i] = 0
  /\ \E k \in 1..Len(encIn.rows) :
       /\ encIn.rows[k].case_id = encOut.src[1]
       /\ encIn.rows[k].symptom_id \notin Range(encIn.symptom_ids)

\* The encode was given a case whose disease id is no key of the disease
\* mapping (and reached the encoding loop).
UnmappedDiseaseGiven ==
  \/ /\ encFn = "train"
     /\ encIn.symptom_ids # <<>> /\ encIn.disease_ids # <<>>
     /\ encIn.relFile \in {"csv", "json"}
     /\ \E k \in 1..Len(encIn.rows) :
          encIn.rows[k].disease_id \notin Range(encIn.disease_ids)
  \/ /\ encFn = "eval"
     /\ \E c \in 1..Len(encIn.test_data) :
          encIn.test_data[c].disease_id \notin DOMAIN encIn.disease_mapping

\* C3: a case whose disease id is absent from the disease mapping makes the
\* label encoding fail with an error; the case is neither dropped nor given
\* a default label.
C3_UnmappedDiseaseRejected ==
  (EncApplied /\ UnmappedDiseaseGiven) => encOut.err # "none"

SizeApplied == sizeOut # <<>>
SizeRows == SumOver(sizeIn.counts, DOMAIN sizeIn.counts)

\* C4: split_data first takes the test set at test_size of the full set and
\* then the validation set at val_size / (1 - test_size) of the remainder
\* (sizes rounded up to whole rows), so the validation set is val_size of
\* the original set to within one row; 1000 rows with test_size 0.2 and
\* val_size 0.1 give 200 test rows and 100 validation rows.
C4_SplitSizes ==
  (SizeApplied /\ sizeOut.err = "none") =>
    LET n  == SizeRows
        tp == sizeIn.test_size
        vp == sizeIn.val_size
    IN /\ sizeOut.n_test = CeilDiv(tp * n, 100)
       /\ sizeOut.n_val = CeilDiv(vp * (n - sizeOut.n_test), 100 - tp)
       /\ sizeOut.n_train + sizeOut.n_val + sizeOut.n_test = n
       /\ 100 * sizeOut.n_val > vp * n - 100
       /\ 100 * sizeOut.n_val < vp * n + 100
       /\ (n = 1000 /\ tp = 20 /\ vp = 10) =>
            (sizeOut.n_test = 200 /\ sizeOut.n_val = 100 /\ sizeOut.n_train = 700)

\* The 1000-row data set of two classes split at 0.2 / 0.1.
C4_Witness ==
  /\ SizeApplied /\ sizeOut.err = "none"
  /\ SizeRows = 1000 /\ sizeIn.test_size = 20 /\ sizeIn.val_size = 10
  /\ Cardinality(DOMAIN sizeIn.counts) = 2
  /\ sizeOut.n_val = 100

SplitApplied == splitOut # <<>>
SplitReturned == SplitApplied /\ splitOut.err = "none"

NoDuplicates(seq) == Cardinality(Range(seq)) = Len(seq)

\* Row k of the X part carries the label the input gives that row.
KeepsLabels(Xpart, ypart) ==
  /\ Len(Xpart) = Len(ypart)
  /\ \A k \in 1..Len(Xpart) : ypart[k] = splitIn.y[Xpart[k]]

\* C5: whenever split_data returns, the train, validation and test parts are
\* pairwise disjoint sets of input rows, together hold every input row
\* exactly once, and every row keeps its own label.
C5_Partition ==
  SplitReturned =>
    LET tr == splitOut.X_train
        va == splitOut.X_val
        te == splitOut.X_test
    IN /\ NoDuplicates(tr) /\ NoDuplicates(va) /\ NoDuplicates(te)
       /\ Range(tr) \cap Range(va) = {}
       /\ Range(tr) \cap Range(te) = {}
       /\ Range(va) \cap Range(te) = {}
       /\ Range(tr) \cup Range(va) \cup Range(te) = Range(splitIn.X)
       /\ KeepsLabels(tr, splitOut.y_train)
       /\ KeepsLabels(va, splitOut.y_val)
       /\ KeepsLabels(te, splitOut.y_test)

\* A two-class data set split into three parts, the validation part holding
\* rows of both classes.
C5_Witness ==
  /\ SplitReturned
  /\ Cardinality(Range(splitIn.y)) = 2
  /\ Cardinality(Range(splitOut.y_val)) = 2
  /\ Len(splitOut.X_train) > 1 /\ Len(splitOut.X_test) > 1

DistinctLabels(y) == Cardinality(Range(y))

\* Each split stratifies exactly when its label array has several values.
StratifiesIffSeveralClasses ==
  SplitApplied =>
    /\ splitOut.stratify1 = (DistinctLabels(splitIn.y) > 1)
    /\ splitOut.y_train_val # <<>> =>
         splitOut.stratify2 = (DistinctLabels(splitOut.y_train_val) > 1)

\* test_size and val_size as the contract of split_data takes them.
ContractParams ==
  /\ splitIn.test_size > 0 /\ splitIn.val_size > 0
  /\ splitIn.test_size + splitIn.val_size < 100

SingleClass == DistinctLabels(splitIn.y) = 1

\* Both splits leave at least one training row.
LeavesTrainingRows ==
  LET n  == Len(splitIn.y)
      tv == n - CeilDiv(splitIn.test_size * n, 100)
  IN tv >= 1 /\ tv - CeilDiv(splitIn.val_size * tv, 100 - splitIn.test_size) >= 1

\* C6 (as stated): each split stratifies iff its label array has more than
\* one distinct value, and with a single class split_data returns normally
\* instead of raising.
C6_Original ==
  /\ StratifiesIffSeveralClasses
  /\ (SplitApplied /\ ContractParams /\ SingleClass) => splitOut.err = "none"

\* C6 (amended): each split stratifies iff its label array has more than one
\* distinct value; with a single class no split stratifies and split_data
\* returns normally whenever both splits leave at least one training row,
\* and otherwise raises the empty-train-set error of train_test_split.
C6_Stratify ==
  /\ StratifiesIffSeveralClasses
  /\ (SplitApplied /\ ContractParams /\ SingleClass) =>
       /\ ~splitOut.stratify1 /\ ~splitOut.stratify2
       /\ LeavesTrainingRows => splitOut.err = "none"
       /\ ~LeavesTrainingRows => splitOut.err = "train set will be empty"

\* A single-class data set that split_data splits without stratification.
C6_Witness ==
  /\ SplitReturned /\ SingleClass /\ ContractParams
  /\ ~splitOut.stratify1 /\ ~splitOut.stratify2
  /\ Len(splitOut.X_val) > 0

AfterTraining == stage \in {"trained", "evaluated", "saved"}

\* C7: every configured classifier is fitted on the training part only and,
\* when calibration is enabled, its calibrator is fitted on the validation
\* part only: no training row is used to fit a calibrator.
C7_CalibrationOnValidation ==
  AfterTraining =>
    /\ ModelNames(models) = cfg.models_to_train
    /\ \A n \in ModelNames(models) :
         /\ models[n].estimator = n
         /\ models[n].base_fit = data.train
         /\ models[n].calibrated = cfg.calibrate_probabilities
         /\ cfg.calibrate_probabilities =>
              /\ models[n].calibrator_fit = data.val
              /\ models[n].calibrator_fit \cap data.train = {}
         /\ ~cfg.calibrate_probabilities => models[n].calibrator_fit = {}

\* The three classifiers trained with calibration.
C7_Witness ==
  /\ stage = "trained"
  /\ cfg.calibrate_probabilities
  /\ ModelNames(models) = Range(ModelTypes)
  /\ \A n \in ModelNames(models) : models[n].calibrator_fit # {}

\* Position of a classifier in declaration order.
DeclIndex(n) == CHOOSE i \in 1..Len(ModelTypes) : ModelTypes[i] = n

\* C8: after train_models with at least one configured classifier, one best
\* model is recorded: a trained model of maximal validation accuracy, the
\* first in declaration order among those of maximal accuracy. With no
\* classifier configured no best model is recorded.
C8_BestModel ==
  AfterTraining =>
    IF cfg.models_to_train # {}
    THEN /\ "best_model" \in DOMAIN models
         /\ LET best == models["best_model"]
            IN /\ best \in ModelNames(models)
               /\ \A n \in ModelNames(models) :
                    /\ model_performances[n] <= model_performances[best]
                    /\ model_performances[n] = model_performances[best] =>
                         DeclIndex(best) <= DeclIndex(n)
    ELSE "best_model" \notin DOMAIN models

\* Three classifiers, the last two tied at the maximal accuracy.
C8_Witness ==
  /\ stage = "trained"
  /\ ModelNames(models) = Range(ModelTypes)
  /\ model_performances["random_forest"] < model_performances["gradient_boosting"]
  /\ model_performances["gradient_boosting"] = model_performances["neural_network"]
  /\ models["best_model"] = "gradient_boosting"

\* A run configured with the three classifiers and feature scaling.
FullRun == cfg.models_to_train = Range(ModelTypes) /\ cfg.scale_features

\* The run directory the run that just saved wrote: the target of 'latest'.
SavedDir == dirs[latest.target]

\* Some file of the directory holds the id -> index mapping of the table.
HoldsIndexMapping(files, table) ==
  \E f \in DOMAIN files :
    files[f].kind = "index_mapping" /\ files[f].holds = table

\* C9: after a successful save_models the run directory holds every trained
\* model, the fitted scaler when scaling is enabled, the symptom-id -> index
\* mapping and the disease-id -> index mapping used to encode the data.
C9_AllFourPersisted ==
  (stage = "saved" /\ FullRun) =>
    /\ \A n \in ModelNames(models) :
         \E f \in DOMAIN SavedDir :
           SavedDir[f].kind = "model" /\ SavedDir[f].holds = models[n]
    /\ cfg.scale_features => \E f \in DOMAIN SavedDir : SavedDir[f].kind = "scaler"
    /\ HoldsIndexMapping(SavedDir, "symptom")
    /\ HoldsIndexMapping(SavedDir, "disease")

\* The models save_models wrote into run directory ts.
ModelsSavedIn(ts) == {t \in Range(ModelTypes) : PickleName(t) \in DOMAIN dirs[ts]}

\* C10: every file the evaluator opens in the model directory exists under
\* that name after a successful training run, so evaluation loads every
\* trained model and does not fail on a missing artifact.
C10_EvaluatorFindsArtifacts ==
  (evalOut # <<>> /\ FullRun) =>
    /\ evalOut.err = "none"
    /\ evalOut.loaded = ModelsSavedIn(evalOut.dir)

\* The save_models invocations that completed without raising.
Succeeded(i) == saveLog[i].err = "none"

\* What 'latest' resolves to: the run directory it links to, if that exists.
Resolves(l, ds, d) == l = [kind |-> "link", target |-> d] /\ d \in DOMAIN ds

\* C11: any two invocations of save_models on one model directory write to
\* two distinct run directories, and no invocation writes into a directory
\* that another run created, also when both run within one clock second.
C11_DistinctRunDirectories ==
  /\ \A i, j \in DOMAIN saveLog : i # j => saveLog[i].dir # saveLog[j].dir
  /\ \A i \in DOMAIN saveLog : saveLog[i].fresh

\* C12: after two consecutive successful training invocations on one model
\* directory, 'latest' resolves to the run directory the second one wrote.
C12_LatestIsSecondRun ==
  LET n == Len(saveLog)
  IN (/\ n >= 2
      /\ Succeeded(n - 1) /\ Succeeded(n)
      /\ saveLog[n].run = saveLog[n - 1].run + 1)
     => /\ Resolves(latest, dirs, saveLog[n].dir)
        /\ "metadata.json" \in DOMAIN dirs[saveLog[n].dir]

\* Two consecutive successful invocations in different clock seconds.
C12_Witness ==
  /\ Len(saveLog) = 2
  /\ Succeeded(1) /\ Succeeded(2)
  /\ saveLog[2].run = saveLog[1].run + 1
  /\ saveLog[1].dir # saveLog[2].dir
  /\ Resolves(latest, dirs, saveLog[2].dir)

\* C13: whenever an entry named 'latest' is in the model directory when
\* save_models reaches the repoint step (a link to an existing directory, a
\* link whose target is gone, or a plain directory), save_models removes it
\* and completes with 'latest' pointing to the new run directory.
C13_ExistingLatestReplaced ==
  \A i \in DOMAIN saveLog :
    saveLog[i].before.kind # "none" =>
      /\ Succeeded(i)
      /\ saveLog[i].after = [kind |-> "link", target |-> saveLog[i].dir]

\* A read of 'latest' taken while a save_models run that found 'latest'
\* resolving to a run directory is between its first and its last step.
ReadDuringSave ==
  /\ evalOut # <<>> /\ evalOut.fn = "resolve_latest"
  /\ evalOut.during \in {"repoint", "link"}
  /\ stage \in {"repoint", "link"}
  /\ LET start == saveLog[Len(saveLog)].before
     IN start.kind = "link" /\ start.target \in DOMAIN dirs

\* C14: once 'latest' exists, a reader that resolves it at any moment of a
\* save_models run obtains the previous or the new run directory and never
\* finds the pointer absent.
C14_AtomicRepoint ==
  ReadDuringSave =>
    evalOut.found \in {saveLog[Len(saveLog)].before,
                       [kind |-> "link", target |-> saveLog[Len(saveLog)].dir]}

\* A step in which load_data runs to its return or to the error it raises.
LoadDataStep == stage = "start" /\ stage' # "start"

\* load_data returned the contents of the processed array files and left
\* the processed directory alone.
ReturnsStored ==
  /\ stage' = "loaded"
  /\ data' = processedData
  /\ called' = <<"np.load">>
  /\ UNCHANGED <<processed, processedData>>

\* load_data encoded the raw tables, split the result, wrote the six array
\* files and returned the parts it wrote.
Recomputes ==
  /\ stage' = "loaded"
  /\ called' = <<"prepare_disease_prediction_data", "split_data", "save_processed_data">>
  /\ ArrayFiles \subseteq processed'
  /\ data' = processedData'

\* load_data encoded the raw tables and raised, from the encoder, for an
\* empty data set or from split_data, leaving the processed directory alone.
RaisesBeforeWriting ==
  /\ stage' = "failed"
  /\ called' \in {<<"prepare_disease_prediction_data">>,
                  <<"prepare_disease_prediction_data", "split_data">>}
  /\ UNCHANGED <<processed, processedData>>

\* C15 as stated: load_data returns the contents of the six processed array
\* files, without re-encoding, re-splitting or rewriting a processed file, if
\* and only if all six exist; if one is missing it re-encodes from the raw
\* tables, splits and writes all six files.
C15_Original ==
  [][LoadDataStep =>
       IF ArrayFiles \subseteq processed THEN ReturnsStored ELSE Recomputes]_vars

\* C15 as amended: as above, except that with a file missing load_data
\* raises, writing nothing, when the encoder raises, the encoded data set is
\* empty or split_data raises.
C15_PrefersProcessed ==
  [][LoadDataStep =>
       IF ArrayFiles \subseteq processed THEN ReturnsStored
       ELSE Recomputes \/ RaisesBeforeWriting]_vars

\* A second invocation that loaded the files the first one had to write.
C15_Witness ==
  /\ runs = 2 /\ stage = "loaded"
  /\ called = <<"np.load">>
  /\ data = processedData /\ processedData # StoredParts

\* Raw tables from which no row can be encoded: an empty or missing symptom
\* or disease table, a missing or empty relationship file, or no case whose
\* disease is in the disease table.
EncodesNothing(r) ==
  \/ Len(r.symptom_ids) = 0
  \/ Len(r.disease_ids) = 0
  \/ r.relFile = "missing"
  \/ /\ r.relFile \in {"csv", "json"}
     /\ \A i \in 1..Len(r.rows) : r.rows[i].disease_id \notin Range(r.disease_ids)

\* C16: whenever the encoded data set is empty, load_data asked for the split
\* raises 'No data available for training' before split_data,
\* save_processed_data, scaling or a model fit is called.
C16_NoDataError ==
  [][(LoadDataStep /\ ~(ArrayFiles \subseteq processed) /\ EncodesNothing(raw)) =>
       /\ stage' = "failed"
       /\ error' = <<"load", "No data available for training">>
       /\ called' = <<"prepare_disease_prediction_data">>]_vars

\* A loader was applied to a file that does not exist.
LoadedAbsent == encOut # <<>> /\ ~encIn.present

Reported == evOut # <<>> /\ evOut.err = "none"

\* Every label of y_test and of the predictions is a label of the mapping.
LabelsInUniverse ==
  Range(evIn.y_test) \cup Range(evIn.y_pred)
    \subseteq {evIn.disease_mapping[d] : d \in DOMAIN evIn.disease_mapping}

\* C18: the confusion matrix of the report is square with as many rows as
\* the disease mapping has labels, also when some disease occurs neither in
\* y_test nor in the predictions.
C18_ConfusionMatrixOverUniverse ==
  (Reported /\ LabelsInUniverse) =>
    LET n == Cardinality(DOMAIN evIn.disease_mapping)
    IN /\ Len(evOut.confusion_matrix) = n
       /\ \A i \in 1..n : Len(evOut.confusion_matrix[i]) = n

\* The outcomes of the one-vs-rest split of disease d in y_test.
BothOutcomes(d) ==
  /\ \E k \in 1..Len(evIn.y_test) : evIn.y_test[k] = evIn.disease_mapping[d]
  /\ \E k \in 1..Len(evIn.y_test) : evIn.y_test[k] # evIn.disease_mapping[d]

\* C19: in the report of one model a disease has a ROC-AUC entry if and only
\* if its one-vs-rest vector over y_test holds both outcomes; a disease with
\* one observed outcome is left out and raises no error.
C19_RocAucEntries ==
  evOut # <<>> =>
    /\ Reported =>
         \A d \in DOMAIN evIn.disease_mapping : d \in evOut.roc_auc <=> BothOutcomes(d)
    /\ (\A d \in DOMAIN evIn.disease_mapping : ~BothOutcomes(d)) => Reported

\* A report with an entry for one disease and none for another whose label
\* does not occur in y_test.
C19_Witness ==
  /\ Reported
  /\ \E d, e \in DOMAIN evIn.disease_mapping :
       /\ BothOutcomes(d) /\ d \in evOut.roc_auc
       /\ ~BothOutcomes(e) /\ e \notin evOut.roc_auc

\* The symptoms of the feature mapping whose lower-cased display name
\* contains the lower-cased text of the span, in iteration order.
NameMatches(span) ==
  SelectSeq(evIn.keys, LAMBDA k : IsSubstring(Lower(span), Lower(evIn.names[k])))

\* C20: in evaluate_end_to_end every extracted span whose lower-cased text is
\* a substring of the lower-cased display name of some symptom of the feature
\* mapping sets the feature of the first such symptom, in iteration order,
\* to 1, and a span that matches no display name sets no feature.
C20_SpanSetsFirstMatch ==
  evOut # <<>> =>
    \A i \in DOMAIN evOut.feature_vector :
      evOut.feature_vector[i] = 1 <=>
        \E j \in 1..Len(evIn.spans) :
          /\ NameMatches(evIn.spans[j]) # <<>>
          /\ evIn.feature_mapping[NameMatches(evIn.spans[j])[1]] = i

\* C21: when a stage of a training run raises, the entry point reports the
\* error with the stage that failed and lets the failure reach its caller:
\* the run does not end in the normal-completion outcome.
C21_FailurePropagates ==
  (stage = "failed" /\ outcome # <<>>) =>
    /\ outcome.printed[Len(outcome.printed)] = error[2]
    /\ outcome.last_progress = ProgressLine(error[1])
    /\ outcome.exit # "normal"

\* C22: no symptom of a generated case belongs to the exclusionary symptom
\* set of the case's disease, whether the disease is built in, generated or
\* read from a base file.
C22_NoExclusionarySymptom ==
  (evFn = "generate_symptom_disease_relationships" /\ evOut # <<>>) =>
    evOut.symptoms \cap evIn.disease.exclusionary_symptoms = {}

\* The stage a run enters when the stage it is about to run returns.
StageEdges ==
  {<<"start", "loaded">>, <<"loaded", "preprocessed">>,
   <<"preprocessed", "trained">>, <<"trained", "evaluated">>,
   <<"evaluated", "saved">>}

\* The stage that runs from a position of train_and_evaluate.
RunningStage(at) ==
  CASE at = "start" -> "load"
    [] at = "loaded" -> "preprocess"
    [] at = "preprocessed" -> "train"
    [] at = "trained" -> "evaluate"
    [] at = "evaluated" -> "save"

\* C23: a run goes through load, preprocess, train, evaluate, save in that
\* order, each once; a stage that raises ends the run; and the run
\* directories and the 'latest' pointer change only in the save stage, which
\* starts only with the test evaluation of every trained model done, so a run
\* that failed before saving wrote no model file and left 'latest' as it was.
C23_StagesInOrder ==
  [][/\ stage' # stage =>
          \/ <<stage, stage'>> \in StageEdges
          \/ /\ stage' = "failed"
             /\ stage \in {e[1] : e \in StageEdges}
             /\ error'[1] = RunningStage(stage)
          \/ stage \in {"saved", "failed"} /\ stage' = "start"
     /\ (dirs' # dirs \/ latest' # latest) =>
          /\ stage = "evaluated"
          /\ ModelNames(models) = Range(Trained(cfg.models_to_train))
          /\ evaluation_results = ModelNames(models)]_vars

\* A second run failed before saving, after a first run that saved: the
\* pointer is still the one the first run made.
C23_Witness ==
  /\ stage = "failed" /\ error[1] \in {"load", "train", "evaluate"}
  /\ runs = 2 /\ Len(saveLog) = 1
  /\ saveLog[1].err = "none"
  /\ latest = saveLog[1].after

\* C24: the dict train_models returns, which train_and_evaluate returns as
\* 'models', has no 'best_model' entry: its keys are the trained model types.
C24_NoSentinelInReturnedModels ==
  (stage = "saved" /\ outcome # <<>>) =>
    "best_model" \notin DOMAIN outcome.results.models

\* C25: the orchestrator enters its stages in the order setup, data
\* generation, data preparation, symptom-extraction training,
\* disease-prediction training, evaluation (the optional ones when switched
\* on), no call on MedicalDataLoader or DiseasePredictionTrainer is rejected,
\* and the run reaches 'AI/ML pipeline training complete'.
C25_PipelineCompletes ==
  (evFn = "main" /\ evOut # <<>>) =>
    /\ evOut.entered = Stages(evIn)
    /\ evOut.error.kind = "none"
    /\ evOut.complete

\* The file names of a run directory of a run of the configuration.
RunFileNames(config) ==
  {PickleName(t) : t \in Range(Trained(config.models_to_train))}
  \cup (IF config.scale_features THEN {PickleName("standard_scaler")} ELSE {})
  \cup {"metadata.json"}

\* The pointer is the link a completed save_models made.
LatestMadeBySave ==
  /\ latest.kind = "link"
  /\ \E i \in 1..Len(saveLog) : saveLog[i].err = "none" /\ saveLog[i].after = latest

\* C26: whenever the 'latest' link made by save_models is there, the run
\* directory it names holds metadata.json and a file for every model and
\* scaler of the run, and the run that made it had written all of them.
C26_PointerAfterFiles ==
  LatestMadeBySave =>
    /\ latest.target \in DOMAIN dirs
    /\ RunFileNames(cfg) \subseteq DOMAIN dirs[latest.target]
    /\ \A i \in 1..Len(saveLog) :
         (saveLog[i].run = runs /\ saveLog[i].err = "none") =>
           {WriteCall(f) : f \in RunFileNames(cfg)} \subseteq Range(called)

\* A second run writes its files into a new directory while 'latest' still
\* names the directory of the first run.
C26_Witness ==
  /\ LatestMadeBySave
  /\ stage = "writing" /\ runs = 2
  /\ saveLog[Len(saveLog)].dir # latest.target
  /\ DOMAIN dirs[saveLog[Len(saveLog)].dir] # RunFileNames(cfg)

\* C27: for every disease whose ROC-AUC is computed, the column
\* y_pred_proba[:, disease_idx] exists, i.e. disease_idx is one of the
\* columns 0..n_classes-1 of the classes the model knows, and reading it
\* raises no IndexError.
C27_ScoreColumnOfDisease ==
  (evFn = "_evaluate_disease_prediction_model" /\ evOut # <<>>) =>
    \A d \in DOMAIN evIn.disease_mapping :
      HasRocAuc(evIn.y_test, evIn.disease_mapping[d]) =>
        /\ evIn.disease_mapping[d] \in 0..(evIn.n_classes - 1)
        /\ evOut.err # "IndexError"

\* C28: the 'text' of every entity _extract_symptoms returns is the slice of
\* the input text from the entity's 'start' to its 'end'.
C28_EntityTextIsSlice ==
  (evFn = "_extract_symptoms" /\ evOut # <<>>) =>
    \A i \in 1..Len(evOut.entities) :
      evOut.entities[i].text =
        Slice(evIn.text, evOut.entities[i].start, evOut.entities[i].end)

\* A fraction between 0 and 1.
InUnitInterval(q) == 0 <= q[1] /\ q[1] <= q[2]

\* C29: the exact-match and partial-match counts exceed neither the number
\* of true entities nor the number of predicted entities, and every
\* precision, recall and F1 value lies between 0 and 1.
C29_NerMetricsInUnitInterval ==
  (evFn = "_evaluate_ner_model" /\ evOut # <<>>) =>
    /\ \A c \in {evOut.counts.exact_matches, evOut.counts.partial_matches} :
         c <= evOut.counts.true_entities /\ c <= evOut.counts.predicted_entities
    /\ \A kind \in {evOut.exact_match, evOut.partial_match} :
         /\ InUnitInterval(kind.precision)
         /\ InUnitInterval(kind.recall)
         /\ InUnitInterval(kind.f1)

\* C30: every press of 'Submit feedback' with a non-empty text, after an
\* analysis was shown, has appended one row with that text to feedback.csv,
\* the earlier rows kept.
C30_SubmitAppendsRow ==
  feedback_csv = submitted
====
